---- MODULE Spec2Model ----
(***************************************************************************)
(* DDTrace in-kernel consumer (sys/modules/ddtrace/ddtrace.c): the client  *)
(* hash table, the open/close lifecycle callbacks, module stop, and the    *)
(* per-client kernel thread; and the user-space consumer                   *)
(* (contrib/ddtrace/ddtrace_consumer.c): its main loop and the buffered    *)
(* handler that publishes JSON messages to Kafka.                          *)
(***************************************************************************)
EXTENDS Integers, Sequences, FiniteSets, TLC

(* ------------------------------ bounds --------------------------------- *)

\* client instances that open may allocate in one run
MaxClients == 2

\* entries of a tracing state's ECB table (enabled probe ids 1..MaxEpids)
MaxEpids == 2

\* log MTU, scaled down (the value comes from the DLog headers)
DL_MTU == 2

\* readings of the high-resolution clock
MaxTime == 2

\* mp_ncpus, the per-CPU buffers of a tracing state
NCPU == 2

\* records and fillers a probe context writes into one region
MaxRecs == 3

\* rd_kafka_poll calls the buffered handler makes for one message while
\* the producer queue stays full
MaxPolls == 2

\* fragments libdtrace hands to the buffered handler in one run
MaxFrags == 4

\* iterations of the main loop of the consumer in one run
MaxCycles == 2

(* --------------------------- program constants ------------------------- *)

NULL == 0

DDTRACE_NHASH_BUCKETS == 16

DTRACEOPT_UNSET == -2

DTRACE_EPIDNONE == 0

\* larger than every clock reading
INT64_MAX == MaxTime + 1

\* tracing states (dtrace_state_t pointers) handed to the callbacks;
\* 1 and 17 fall into the same bucket, 2 into another one
Handles == {1, 2, 17}

ClientIds == 1..MaxClients

BufPolicies == {"switch", "ring", "fill"}

\* the calling process' descriptors: 3 is not open, 4 is a file without
\* cdevpriv data, 5 has cdevpriv data without a handle, 6 is a DLog handle
Fds == {3, 4, 5, 6}

VARIABLES
    ddtrace_hashtbl,   \* bucket -> chain of clients, head first
    hashtbl_destroyed, \* hashdestroy() was called on the table
    registered,        \* dtrace_dist_register done, not yet unregistered
    client,            \* struct client, by allocation
    thread,            \* the kernel thread started for each client
    dtrace_lock,       \* owner of dtrace_lock: "free", "lifecycle" (the
                       \* caller of a callback) or a client's thread
    closer,            \* the thread delivering dtdops_close
    stopper,           \* the thread running ddtrace_stop
    panicked,          \* a DL_ASSERT failed or the kernel crashed
    last_log,          \* last diagnostic written by ddtrace_open
    opened,            \* handles accepted by open and not yet closed
    dup_open,          \* open was accepted for a handle already opened
    open_arg,          \* the tracing state passed to the latest open
    hrtime,            \* dtrace_gethrtime()
    dts_alive,         \* state->dts_alive of every tracing state
    seen,              \* an outside reader's latest sample of dts_alive
    settled,           \* its latest sample that was not INT64_MAX
    dts_buffer,        \* state->dts_buffer[cpu] of every tracing state
    dts_errors,        \* state->dts_errors of every tracing state
    memory,            \* the words of every buffer region
    tq,                \* the virtio trace queue
    written,           \* words written by probes, per state and CPU
    handed,            \* the regions handed to ddtrace_persist_trace, with
                       \* the words they held at that moment
    unlocked,          \* accesses to a session's fields that were made
                       \* with its ddtrace_mtx not held
    harvest,           \* what the latest call of ddtrace_buffer_switch did
    ddtrace_record_bound, \* the sysctl kern.ddtrace.record_bound
    g_intr,            \* set by the signal handler of the consumer
    tx_rk,             \* the Kafka producer handle, NULL without -o
    output_buf,        \* the static message buffer of the buffered handler
    handler,           \* the call of dtc_buffered_handler in progress
    produced,          \* payloads rd_kafka_produce has copied and queued
    frames,            \* the messages closed so far and what became of them
    mainloop,          \* position and locals of main()
    pumped,            \* who called the delivery report pump in its
                       \* current cycle: 0 is main(), k the thread of client k
    dtc_crashed,       \* the consumer process died
    rkmessage,         \* what rd_kafka_consume returned to dtc_get_buf: a
                       \* pointer is <<>> when NULL, <<object>> otherwise
    bufp,              \* the pointer dtc_get_buf stored through bufp
    setup,             \* the call of dtc_setup_rx_topic or
                       \* dtc_setup_tx_topic in progress: its position, its
                       \* conf object and its client handle
    dthyve             \* bhyve's dthyve.c: sockfd, filefd, the descriptor
                       \* table of the process and the latest call

regVars == <<ddtrace_hashtbl, hashtbl_destroyed, registered>>

lifeVars == <<dtrace_lock, closer, stopper>>

histVars == <<last_log, opened, dup_open, open_arg>>

aliveVars == <<hrtime, dts_alive, seen, settled>>

\* the state of the functions that stand beside the main loop of the
\* consumer, and of dthyve.c
sideVars == <<rkmessage, bufp, setup, dthyve>>

\* what the lifecycle callbacks and ddtrace_stop never touch
mainVars ==
    <<g_intr, tx_rk, output_buf, handler, produced, frames, mainloop, pumped,
      dtc_crashed>>

conVars == <<mainVars, sideVars>>

bufVars ==
    <<dts_buffer, dts_errors, memory, tq, written, handed, unlocked, harvest,
      ddtrace_record_bound, conVars>>

envVars == <<aliveVars, bufVars>>

vars == <<regVars, client, thread, lifeVars, panicked, histVars, envVars>>

\* the state of the kernel module, which the consumer process never
\* touches
kernVars ==
    <<regVars, client, thread, lifeVars, panicked, histVars, aliveVars,
      dts_buffer, dts_errors, memory, tq, written, handed, unlocked,
      harvest, ddtrace_record_bound>>

(* ------------------------------ helpers -------------------------------- *)

Buckets == 0..(DDTRACE_NHASH_BUCKETS - 1)

\* murmur3_32_hash(&state, ...) & ddtrace_hashmask
Hash(state) == state % DDTRACE_NHASH_BUCKETS

LIST_INSERT_HEAD(head, k) == <<k>> \o head

LIST_REMOVE(head, k) == SelectSeq(head, LAMBDA e : e # k)

LIST_FIRST(head) == IF head = <<>> THEN NULL ELSE Head(head)

\* successor of k in its chain, NULL at the end
LIST_NEXT(head, k) ==
    IF \E i \in 1..Len(head) : head[i] = k /\ i < Len(head)
    THEN head[(CHOOSE i \in 1..Len(head) : head[i] = k) + 1]
    ELSE NULL

\* record sizes of the enabled probe ids of a tracing state: each is the
\* largest size the log takes or one word more
EpidTables == UNION {[1..n -> {DL_MTU, DL_MTU + 1}] : n \in 0..MaxEpids}

\* the fields of dtrace_state_t that ddtrace_open reads; dts_epid is the
\* next enabled probe id to hand out, so ids 1..dts_epid-1 are enabled
DtraceStates ==
    [dte_size : EpidTables, bufpolicy : BufPolicies,
     ddtracearg : {DTRACEOPT_UNSET} \cup Fds]

\* a tracing state without enablings and options
NoState ==
    [dte_size |-> <<>>, bufpolicy |-> "switch",
     ddtracearg |-> DTRACEOPT_UNSET]

dts_epid(st) == Len(st.dte_size) + 1

dtrace_epid2size(st, epid) ==
    IF epid \in 1..Len(st.dte_size) THEN st.dte_size[epid] ELSE 0

\* fget_locked(): the file behind a descriptor, NULL when not open
fget_locked(fd) == IF fd \in {4, 5, 6} THEN fd ELSE NULL

\* fp->f_cdevpriv
f_cdevpriv(fp) == IF fp \in {5, 6} THEN fp ELSE NULL

\* p->cdpd_data, the struct dlog_handle
cdpd_data(p) == IF p = 6 THEN 6 ELSE NULL

Cpus == 0..(NCPU - 1)

\* words in one buffer region
BufSize == MaxRecs * DL_MTU

\* the two regions of the buffer of one CPU of one tracing state
Region(state, cpu, which) == state * 100 + cpu * 10 + which

Regions == {Region(h, c, w) : h \in Handles, c \in Cpus, w \in {1, 2}}

\* dtrace_buffer_t
NoBuffer ==
    [dtb_tomax |-> NULL, dtb_xamot |-> NULL, dtb_offset |-> 0,
     dtb_xamot_offset |-> 0, dtb_drops |-> 0, dtb_xamot_drops |-> 0,
     dtb_errors |-> 0, dtb_xamot_errors |-> 0, dtb_flags |-> {},
     dtb_switched |-> 0]

AllocBuffer(state, cpu) ==
    [NoBuffer EXCEPT !.dtb_tomax = Region(state, cpu, 1),
                     !.dtb_xamot = Region(state, cpu, 2)]

NoClient ==
    [mem |-> "none", ddtrace_state |-> NULL, ddtrace_exit |-> 0,
     ddtrace_dlog_handle |-> NULL, ddtrace_pid |-> NULL]

\* stamped: dts_alive was stored since the latest call of
\* ddtrace_buffer_switch; exports: returns of ddtrace_persist_metadata
NoThread ==
    [pc |-> "none", observed |-> FALSE, post |-> 0, regular |-> 0, now |-> 0,
     stamped |-> FALSE, exports |-> 0]

\* no call of ddtrace_buffer_switch yet; of a call: the CPUs it sent the
\* cross call to
NoHarvest == [xcalled |-> {}]

\* the default of ddtrace_record_bound (1 MiB), scaled down
RECORD_BOUND_DEFAULT == DL_MTU + 1

\* every client linked into some bucket
Linked ==
    UNION {{ddtrace_hashtbl[b][i] : i \in 1..Len(ddtrace_hashtbl[b])} :
           b \in Buckets}

Running(k) == thread[k].pc \notin {"none", "exited"}

\* the owner of dtrace_lock when the thread of client k holds it
Holder(k) == ToString(k)

\* struct dl_bbuf behind output_buf
NoBbuf == [alloc |-> FALSE, data |-> <<>>]

\* main() and the threads that may call a delivery report pump
Workers == 0..MaxClients

(* ------------------------------ Init ----------------------------------- *)

\* the consumer process before main() has set up anything
InitConsumer ==
    /\ g_intr = 0
    /\ tx_rk = NULL
    /\ output_buf = NoBbuf
    /\ handler = [pc |-> "idle", frame |-> <<>>, fulls |-> 0, polls |-> 0,
                  rc |-> 0, err |-> "none", nfrag |-> 0, arrived |-> <<>>]
    /\ produced = <<>>
    /\ frames = <<>>
    /\ mainloop = [pc |-> "start", done |-> 0, cycles |-> 0]
    /\ pumped = [w \in Workers |-> FALSE]
    /\ dtc_crashed = FALSE
    /\ rkmessage = <<>>
    /\ bufp = <<>>
    /\ setup = [fn |-> "none", tls |-> FALSE, pc |-> 0, conf |-> "none",
                rk |-> "none", misuse |-> {}, failed |-> 0, ret |-> 0]
    /\ dthyve = [sockfd |-> -1, filefd |-> -1,
                 fds |-> [fd \in 3..4 |-> "closed"],
                 call |-> "none", rval |-> 0, recvs |-> 0, len |-> 0,
                 buf |-> <<>>]

\* MOD_LOAD: hashinit and dtrace_dist_register succeeded
InitModule ==
    /\ ddtrace_hashtbl = [b \in Buckets |-> <<>>]
    /\ hashtbl_destroyed = FALSE
    /\ registered = TRUE
    /\ client = [k \in ClientIds |-> NoClient]
    /\ thread = [k \in ClientIds |-> NoThread]
    /\ dtrace_lock = "free"
    /\ closer = [pc |-> "idle", state |-> NULL, k |-> NULL, woken |-> FALSE]
    /\ stopper = [pc |-> "idle", i |-> 0, k |-> NULL, k_tmp |-> NULL,
                  woken |-> FALSE]
    /\ panicked = FALSE
    /\ last_log = "none"
    /\ opened = {}
    /\ dup_open = FALSE
    /\ open_arg = NoState
    /\ hrtime = 0
    /\ dts_alive = [h \in Handles |-> 0]
    /\ seen = [h \in Handles |-> 0]
    /\ settled = [h \in Handles |-> 0]
    /\ dts_errors = [h \in Handles |-> 0]
    /\ tq = <<>>
    /\ handed = <<>>
    /\ unlocked = {}
    /\ harvest = NoHarvest
    /\ ddtrace_record_bound = RECORD_BOUND_DEFAULT
    /\ InitConsumer

\* tracing states enabled on CPU 1 only: the buffers of CPU 0 were never
\* allocated, nothing has been traced yet
Init ==
    /\ InitModule
    /\ dts_buffer = [h \in Handles |-> [c \in Cpus |->
           IF c = 0 THEN NoBuffer ELSE AllocBuffer(h, c)]]
    /\ memory = [r \in Regions |-> [i \in 1..BufSize |-> DTRACE_EPIDNONE]]
    /\ written = [h \in Handles |-> [c \in Cpus |-> <<>>]]


(* --------------------------- ddtrace_open ------------------------------ *)

\* a rejected open only logs
OpenReject(st, msg) ==
    /\ last_log' = msg
    /\ open_arg' = st
    /\ UNCHANGED <<regVars, client, thread, lifeVars, panicked, opened,
                   dup_open, envVars>>

\* malloc, mtx_init, cv_init, kproc_kthread_add, LIST_INSERT_HEAD
OpenAccept(state, st, handle) ==
    /\ \E k \in ClientIds :
         /\ client[k].mem = "none"
         /\ \A j \in ClientIds : j < k => client[j].mem # "none"
         /\ client' = [client EXCEPT ![k] =
                [mem |-> "live", ddtrace_state |-> state, ddtrace_exit |-> 0,
                 ddtrace_dlog_handle |-> handle, ddtrace_pid |-> k]]
         /\ thread' = [thread EXCEPT ![k] =
                [NoThread EXCEPT !.pc = "meta_fmt"]]
         /\ ddtrace_hashtbl' = [ddtrace_hashtbl EXCEPT ![Hash(state)] =
                LIST_INSERT_HEAD(@, k)]
    /\ last_log' = "ddtrace_open"
    /\ open_arg' = st
    /\ dup_open' = (dup_open \/ state \in opened)
    /\ opened' = opened \cup {state}
    /\ UNCHANGED <<hashtbl_destroyed, registered, lifeVars, panicked,
                   envVars>>

\* OpenVerdict without the test of the buffer policy
OpenVerdict_NoPolicyTest(st) ==
    IF \E epid \in 1..(dts_epid(st) - 1) :
           dtrace_epid2size(st, epid) > DL_MTU
    THEN "record size is greater than log MTU"
    ELSE IF st.ddtracearg = DTRACEOPT_UNSET
    THEN "ddtracearg option is unset"
    ELSE IF fget_locked(st.ddtracearg) = NULL
    THEN "ddtracearg is not a valid file descriptor"
    ELSE IF f_cdevpriv(fget_locked(st.ddtracearg)) = NULL
    THEN "file descriptor has no private data"
    ELSE IF cdpd_data(f_cdevpriv(fget_locked(st.ddtracearg))) = NULL
    THEN "file descriptor is not associated with dlog handle"
    ELSE "ok"

\* OpenVerdict with a size loop that stops one probe id early
OpenVerdict_LoopStopsEarly(st) ==
    IF \E epid \in 1..(dts_epid(st) - 2) :
           dtrace_epid2size(st, epid) > DL_MTU
    THEN "record size is greater than log MTU"
    ELSE IF st.bufpolicy # "switch"
    THEN "bufpolicy must be switch"
    ELSE IF st.ddtracearg = DTRACEOPT_UNSET
    THEN "ddtracearg option is unset"
    ELSE IF fget_locked(st.ddtracearg) = NULL
    THEN "ddtracearg is not a valid file descriptor"
    ELSE IF f_cdevpriv(fget_locked(st.ddtracearg)) = NULL
    THEN "file descriptor has no private data"
    ELSE IF cdpd_data(f_cdevpriv(fget_locked(st.ddtracearg))) = NULL
    THEN "file descriptor is not associated with dlog handle"
    ELSE "ok"

\* the checks ddtrace_open makes before it allocates a client
OpenVerdict(st) ==
    IF \E epid \in 1..(dts_epid(st) - 1) :
           dtrace_epid2size(st, epid) > DL_MTU
    THEN "record size is greater than log MTU"
    ELSE IF st.bufpolicy # "switch"
    THEN "bufpolicy must be switch"
    ELSE IF st.ddtracearg = DTRACEOPT_UNSET
    THEN "ddtracearg option is unset"
    ELSE IF fget_locked(st.ddtracearg) = NULL
    THEN "ddtracearg is not a valid file descriptor"
    ELSE IF f_cdevpriv(fget_locked(st.ddtracearg)) = NULL
    THEN "file descriptor has no private data"
    ELSE IF cdpd_data(f_cdevpriv(fget_locked(st.ddtracearg))) = NULL
    THEN "file descriptor is not associated with dlog handle"
    ELSE "ok"

\* dtdops_open, delivered by DTrace with dtrace_lock held
ddtrace_open(state, st) ==
    /\ ~panicked
    /\ registered
    /\ dtrace_lock = "free"
    /\ IF OpenVerdict(st) # "ok"
       THEN OpenReject(st, OpenVerdict(st))
       ELSE OpenAccept(state, st,
                cdpd_data(f_cdevpriv(fget_locked(st.ddtracearg))))

(* --------------------------- ddtrace_thread ---------------------------- *)

\* whether dereferencing k crashes the kernel: with k freed this is a use
\* after free, after which the kernel carries on with what it read or
\* crashes
Crash(k) == IF client[k].mem = "freed" THEN BOOLEAN ELSE {FALSE}

Deref(k) == \E crash \in Crash(k) : panicked' = crash

\* dtrace_buffer_switch, run on the buffer's CPU by dtrace_xcall: the two
\* regions change roles and the counters of the drained one are kept
dtrace_buffer_switch(buf, now) ==
    [buf EXCEPT !.dtb_tomax = buf.dtb_xamot,
                !.dtb_xamot = buf.dtb_tomax,
                !.dtb_xamot_drops = buf.dtb_drops,
                !.dtb_xamot_offset = buf.dtb_offset,
                !.dtb_xamot_errors = buf.dtb_errors,
                !.dtb_offset = 0,
                !.dtb_drops = 0,
                !.dtb_errors = 0,
                !.dtb_flags = @ \ {"ERROR", "DROPPED"},
                !.dtb_switched = now]

\* ddtrace_persist_trace returning before vtdtr_tq_enqueue
ddtrace_persist_trace_NoEnqueue(q, desc) == q

\* ddtrace_persist_trace leaving dtbd_size of the zeroed entry unset
ddtrace_persist_trace_SizeUnset(q, desc) ==
    Append(q, [dtbd_size |-> 0, dtbd_cpu |-> desc.dtbd_cpu,
               dtbd_errors |-> desc.dtbd_errors,
               dtbd_drops |-> desc.dtbd_drops,
               dtbd_data |-> desc.dtbd_data,
               dtbd_oldest |-> desc.dtbd_oldest])

\* ddtrace_persist_trace: one trace entry that points at the drained
\* region is put on the virtio trace queue (the loop that cuts the region
\* into messages on record boundaries is excluded from the build by #if 0)
ddtrace_persist_trace(q, desc) ==
    Append(q, [dtbd_size |-> desc.dtbd_size, dtbd_cpu |-> desc.dtbd_cpu,
               dtbd_errors |-> desc.dtbd_errors,
               dtbd_drops |-> desc.dtbd_drops,
               dtbd_data |-> desc.dtbd_data,
               dtbd_oldest |-> desc.dtbd_oldest])

\* what ddtrace_persist_trace was given: the region and the words that
\* were in it
Handed(desc) ==
    [dtbd_data |-> desc.dtbd_data,
     words |-> SubSeq(memory[desc.dtbd_data], 1, desc.dtbd_size)]

\* SwitchFrom persisting the inactive region also when the cross call
\* did not switch the buffer
RECURSIVE SwitchFrom_PersistsUnswitched(_, _, _, _, _)
SwitchFrom_PersistsUnswitched(cpu, acc, ran, junk, now) ==
    IF cpu >= NCPU \/ acc.failed THEN acc
    ELSE LET buf == acc.buf[cpu]
             cached == buf.dtb_tomax
             nbuf == IF ran[cpu] THEN dtrace_buffer_switch(buf, now) ELSE buf
             desc == [dtbd_data |-> nbuf.dtb_xamot,
                      dtbd_size |-> nbuf.dtb_xamot_offset,
                      dtbd_drops |-> nbuf.dtb_xamot_drops,
                      dtbd_errors |-> nbuf.dtb_xamot_errors,
                      dtbd_oldest |-> 0,
                      dtbd_cpu |-> junk,
                      dtbd_timestamp |-> nbuf.dtb_switched]
         IN IF buf.dtb_flags \cap {"RING", "FILL"} # {}
            THEN [acc EXCEPT !.failed = TRUE]
            ELSE IF buf.dtb_tomax = NULL
            THEN acc
            ELSE IF "NOSWITCH" \in buf.dtb_flags
            THEN [acc EXCEPT !.failed = TRUE]
            ELSE IF nbuf.dtb_tomax = cached /\ nbuf.dtb_xamot = cached
            THEN [acc EXCEPT !.failed = TRUE]
            ELSE SwitchFrom_PersistsUnswitched(cpu + 1,
                     [acc EXCEPT !.buf[cpu] = nbuf,
                                 !.errors = @ + nbuf.dtb_xamot_errors,
                                 !.tq = IF desc.dtbd_size # 0
                                        THEN ddtrace_persist_trace(@, desc)
                                        ELSE @,
                                 !.handed = IF desc.dtbd_size # 0
                                            THEN Append(@, Handed(desc))
                                            ELSE @,
                                 !.h.xcalled = @ \cup {cpu}],
                     ran, junk, now)

\* the loop of ddtrace_buffer_switch from CPU cpu on; acc carries the
\* buffers, dts_errors, the trace queue, what the call did so far (h) and
\* whether a DL_ASSERT failed;
\* ran[c] tells whether the cross call switched the buffer of CPU c and
\* junk is what the never assigned desc.dtbd_cpu holds
RECURSIVE SwitchFrom(_, _, _, _, _)
SwitchFrom(cpu, acc, ran, junk, now) ==
    IF cpu >= NCPU \/ acc.failed THEN acc
    ELSE LET buf == acc.buf[cpu]
             cached == buf.dtb_tomax
             nbuf == IF ran[cpu] THEN dtrace_buffer_switch(buf, now) ELSE buf
             desc == [dtbd_data |-> nbuf.dtb_xamot,
                      dtbd_size |-> nbuf.dtb_xamot_offset,
                      dtbd_drops |-> nbuf.dtb_xamot_drops,
                      dtbd_errors |-> nbuf.dtb_xamot_errors,
                      dtbd_oldest |-> 0,
                      dtbd_cpu |-> junk,
                      dtbd_timestamp |-> nbuf.dtb_switched]
         IN IF buf.dtb_flags \cap {"RING", "FILL"} # {}
            THEN [acc EXCEPT !.failed = TRUE]
            ELSE IF buf.dtb_tomax = NULL
            THEN \* break
                 acc
            ELSE IF "NOSWITCH" \in buf.dtb_flags
            THEN [acc EXCEPT !.failed = TRUE]
            ELSE IF nbuf.dtb_tomax = cached
            THEN IF nbuf.dtb_xamot = cached
                 THEN [acc EXCEPT !.failed = TRUE]
                 ELSE \* continue
                      SwitchFrom(cpu + 1,
                          [acc EXCEPT !.h.xcalled = @ \cup {cpu}],
                          ran, junk, now)
            ELSE IF cached # nbuf.dtb_xamot
            THEN [acc EXCEPT !.failed = TRUE]
            ELSE SwitchFrom(cpu + 1,
                     [acc EXCEPT !.buf[cpu] = nbuf,
                                 !.errors = @ + nbuf.dtb_xamot_errors,
                                 !.tq = IF desc.dtbd_size # 0
                                        THEN ddtrace_persist_trace(@, desc)
                                        ELSE @,
                                 !.handed = IF desc.dtbd_size # 0
                                            THEN Append(@, Handed(desc))
                                            ELSE @,
                                 !.h.xcalled = @ \cup {cpu}],
                     ran, junk, now)

\* ddtrace_buffer_switch(k->ddtrace_state, k->ddtrace_dlog_handle)
ddtrace_buffer_switch(k) ==
    LET state == client[k].ddtrace_state IN
    \E ran \in [Cpus -> BOOLEAN], junk \in Cpus, crash \in Crash(k) :
        LET r == SwitchFrom(0, [buf |-> dts_buffer[state],
                                errors |-> dts_errors[state],
                                tq |-> tq, handed |-> handed,
                                h |-> NoHarvest, failed |-> FALSE],
                            ran, junk, hrtime)
        IN /\ dts_buffer' = [dts_buffer EXCEPT ![state] = r.buf]
           /\ dts_errors' = [dts_errors EXCEPT ![state] = r.errors]
           /\ tq' = r.tq
           /\ handed' = r.handed
           /\ harvest' = r.h
           /\ panicked' = (crash \/ r.failed)
           /\ unlocked' = unlocked \cup
                  {<<"ddtrace_thread", "dts_buffer">>} \cup
                  IF r.buf # dts_buffer[state]
                  THEN {<<"ddtrace_thread", "dts_errors">>} ELSE {}
           /\ UNCHANGED <<memory, written, ddtrace_record_bound, conVars>>

\* ddtrace_persist_metadata: mutex_enter(&dtrace_lock) and the walk of the
\* format strings
ThreadMetadataFormats(k) ==
    /\ ~panicked
    /\ thread[k].pc = "meta_fmt"
    /\ dtrace_lock = "free"
    /\ dtrace_lock' = Holder(k)
    /\ thread' = [thread EXCEPT ![k].pc = "meta_fmt_held"]
    /\ Deref(k)
    /\ UNCHANGED <<regVars, client, closer, stopper, histVars, envVars>>

\* mutex_exit(&dtrace_lock) after the format strings
ThreadMetadataFormatsExit(k) ==
    /\ ~panicked
    /\ thread[k].pc = "meta_fmt_held"
    /\ dtrace_lock' = "free"
    /\ thread' = [thread EXCEPT ![k].pc = "meta_ecb"]
    /\ UNCHANGED <<regVars, client, closer, stopper, panicked, histVars,
                   envVars>>

\* mutex_enter(&dtrace_lock) and the walk of the enabled probes
ThreadMetadataEprobes(k) ==
    /\ ~panicked
    /\ thread[k].pc = "meta_ecb"
    /\ dtrace_lock = "free"
    /\ dtrace_lock' = Holder(k)
    /\ thread' = [thread EXCEPT ![k].pc = "meta_ecb_held"]
    /\ UNCHANGED <<regVars, client, closer, stopper, panicked, histVars,
                   envVars>>

\* ThreadMetadataEprobesExit returning with dtrace_lock still held
ThreadMetadataEprobesExit_KeepsLock(k) ==
    /\ ~panicked
    /\ thread[k].pc = "meta_ecb_held"
    /\ thread' = [thread EXCEPT ![k].pc = "wait", ![k].exports = @ + 1]
    /\ UNCHANGED <<regVars, client, lifeVars, panicked, histVars, envVars>>

\* mutex_exit(&dtrace_lock) and return 0: the thread enters its loop
ThreadMetadataEprobesExit(k) ==
    /\ ~panicked
    /\ thread[k].pc = "meta_ecb_held"
    /\ dtrace_lock' = "free"
    /\ thread' = [thread EXCEPT ![k].pc = "wait", ![k].exports = @ + 1]
    /\ UNCHANGED <<regVars, client, closer, stopper, panicked, histVars,
                   envVars>>

\* ThreadWake leaving through kthread_exit as soon as the flag is seen
ThreadWake_ExitAtOnce(k) ==
    /\ ~panicked
    /\ thread[k].pc = "wait"
    /\ \E flag \in {0, 1} :
         /\ client[k].mem = "live" => flag = client[k].ddtrace_exit
         /\ thread' = [thread EXCEPT ![k] =
                IF flag # 0
                THEN [@ EXCEPT !.pc = "exiting", !.observed = TRUE]
                ELSE [@ EXCEPT !.pc = "alive_max"]]
    /\ Deref(k)
    /\ UNCHANGED <<regVars, client, lifeVars, histVars, envVars>>

\* cv_timedwait_sbt returned (poll period over or cv_broadcast) and the
\* exit flag is read under ddtrace_mtx
ThreadWake(k) ==
    /\ ~panicked
    /\ thread[k].pc = "wait"
    /\ \E flag \in {0, 1} :
         /\ client[k].mem = "live" => flag = client[k].ddtrace_exit
         /\ thread' = [thread EXCEPT ![k] =
                IF flag # 0
                THEN [@ EXCEPT !.pc = "final", !.observed = TRUE]
                ELSE [@ EXCEPT !.pc = "alive_max"]]
    /\ Deref(k)
    /\ UNCHANGED <<regVars, client, lifeVars, histVars, envVars>>

\* ThreadAliveMax storing 0 in place of INT64_MAX
ThreadAliveMax_StoresZero(k) ==
    /\ ~panicked
    /\ thread[k].pc = "alive_max"
    /\ thread' = [thread EXCEPT ![k].pc = "alive_now",
                      ![k].regular = IF thread[k].observed THEN 1 ELSE @]
    /\ dts_alive' = [dts_alive EXCEPT ![client[k].ddtrace_state] = 0]
    /\ Deref(k)
    /\ UNCHANGED <<regVars, client, lifeVars, histVars, hrtime, seen,
                   settled, bufVars>>

\* dts_alive = INT64_MAX; dtrace_membar_producer()
ThreadAliveMax(k) ==
    /\ ~panicked
    /\ thread[k].pc = "alive_max"
    /\ thread' = [thread EXCEPT ![k].pc = "alive_now",
                      ![k].regular = IF thread[k].observed THEN 1 ELSE @]
    /\ dts_alive' = [dts_alive EXCEPT ![client[k].ddtrace_state] = INT64_MAX]
    /\ Deref(k)
    /\ UNCHANGED <<regVars, client, lifeVars, histVars, hrtime, seen,
                   settled, bufVars>>

\* dtrace_gethrtime()
ThreadAliveNow(k) ==
    /\ ~panicked
    /\ thread[k].pc = "alive_now"
    /\ thread' = [thread EXCEPT ![k].pc = "alive_store", ![k].now = hrtime]
    /\ UNCHANGED <<regVars, client, lifeVars, panicked, histVars, envVars>>

\* dts_alive = (the clock reading)
ThreadAliveStore(k) ==
    /\ ~panicked
    /\ thread[k].pc = "alive_store"
    /\ thread' = [thread EXCEPT ![k].pc = "switch", ![k].now = 0,
                      ![k].stamped = TRUE]
    /\ dts_alive' = [dts_alive EXCEPT ![client[k].ddtrace_state] =
           thread[k].now]
    /\ Deref(k)
    /\ UNCHANGED <<regVars, client, lifeVars, histVars, hrtime, seen,
                   settled, bufVars>>

\* ThreadSwitch testing the exit flag again and leaving the loop without
\* the call of ddtrace_buffer_switch when it is set
ThreadSwitch_StopsWhenFlagged(k) ==
    /\ ~panicked
    /\ thread[k].pc = "switch"
    /\ IF client[k].ddtrace_exit # 0
       THEN /\ thread' = [thread EXCEPT ![k].pc = "final",
                                ![k].observed = TRUE]
            /\ UNCHANGED <<panicked, bufVars>>
       ELSE /\ thread' = [thread EXCEPT ![k].pc = "wait",
                                ![k].stamped = FALSE]
            /\ ddtrace_buffer_switch(k)
    /\ UNCHANGED <<regVars, client, lifeVars, histVars, aliveVars>>

\* ddtrace_buffer_switch in the loop
ThreadSwitch(k) ==
    /\ ~panicked
    /\ thread[k].pc = "switch"
    /\ thread' = [thread EXCEPT ![k].pc = "wait", ![k].stamped = FALSE,
                      ![k].post = IF thread[k].observed THEN @ + 1 ELSE @]
    /\ ddtrace_buffer_switch(k)
    /\ UNCHANGED <<regVars, client, lifeVars, histVars, aliveVars>>

\* ddtrace_buffer_switch after the loop
ThreadFinalSwitch(k) ==
    /\ ~panicked
    /\ thread[k].pc = "final"
    /\ thread' = [thread EXCEPT ![k].pc = "exiting", ![k].post = @ + 1,
                      ![k].stamped = FALSE]
    /\ ddtrace_buffer_switch(k)
    /\ UNCHANGED <<regVars, client, lifeVars, histVars, aliveVars>>

\* kthread_exit: the last thread of the process wakes the sleepers on it
ThreadExit(k) ==
    /\ ~panicked
    /\ thread[k].pc = "exiting"
    /\ thread' = [thread EXCEPT ![k].pc = "exited"]
    /\ closer' = IF closer.pc = "tsleep" /\ closer.k = k
                 THEN [closer EXCEPT !.woken = TRUE] ELSE closer
    /\ stopper' = IF stopper.pc = "tsleep" /\ stopper.k = k
                  THEN [stopper EXCEPT !.woken = TRUE] ELSE stopper
    /\ UNCHANGED <<regVars, client, dtrace_lock, panicked, histVars,
                   envVars>>

(* --------------------------- ddtrace_close ----------------------------- *)

\* first client of a chain whose ddtrace_state is state, NULL if none
Lookup(head, state) ==
    IF \E i \in 1..Len(head) : client[head[i]].ddtrace_state = state
    THEN head[CHOOSE i \in 1..Len(head) :
                  /\ client[head[i]].ddtrace_state = state
                  /\ \A j \in 1..(i - 1) :
                         client[head[j]].ddtrace_state # state]
    ELSE NULL

\* dtdops_close up to cv_broadcast: the caller holds dtrace_lock; the
\* client is looked up and its exit flag set under ddtrace_mtx
CloseSignal(state) ==
    /\ ~panicked
    /\ registered
    /\ closer.pc = "idle"
    /\ dtrace_lock = "free"
    /\ LET k == Lookup(ddtrace_hashtbl[Hash(state)], state) IN
       /\ k # NULL
       /\ client' = [client EXCEPT ![k].ddtrace_exit = 1]
       /\ closer' = [pc |-> "signalled", state |-> state, k |-> k,
                     woken |-> FALSE]
    /\ dtrace_lock' = "lifecycle"
    /\ UNCHANGED <<regVars, thread, stopper, panicked, histVars, envVars>>

\* tsleep(k->ddtrace_pid, ...) begins: a wakeup issued before this point
\* is not seen
CloseSleep ==
    /\ ~panicked
    /\ closer.pc = "signalled"
    /\ closer' = [closer EXCEPT !.pc = "tsleep"]
    /\ UNCHANGED <<regVars, client, thread, dtrace_lock, stopper, panicked,
                   histVars, envVars>>

\* LIST_REMOVE, mtx_destroy, cv_destroy, free, return; freeing a client
\* that ddtrace_stop already freed may crash the kernel
CloseDestroy ==
    /\ ddtrace_hashtbl' = [ddtrace_hashtbl EXCEPT ![Hash(closer.state)] =
           LIST_REMOVE(@, closer.k)]
    /\ client' = [client EXCEPT ![closer.k].mem = "freed"]
    /\ Deref(closer.k)
    /\ closer' = [pc |-> "idle", state |-> NULL, k |-> NULL, woken |-> FALSE]
    /\ dtrace_lock' = "free"
    /\ opened' = opened \ {closer.state}
    /\ UNCHANGED <<hashtbl_destroyed, registered, thread, stopper, last_log,
                   dup_open, open_arg, envVars>>

\* tsleep returns 0: the thread's process exited while the closer slept
CloseWake ==
    /\ ~panicked
    /\ closer.pc = "tsleep"
    /\ closer.woken
    /\ CloseDestroy

\* tsleep returns EWOULDBLOCK after 60 * (10 * hz / 9) ticks; the result
\* is not looked at
CloseTimeout ==
    /\ ~panicked
    /\ closer.pc = "tsleep"
    /\ ~closer.woken
    /\ CloseDestroy

(* --------------------------- ddtrace_stop ------------------------------ *)

\* the first non-empty bucket after bucket i, DDTRACE_NHASH_BUCKETS if none
NextBucket(i) ==
    IF \E b \in Buckets : b > i /\ ddtrace_hashtbl[b] # <<>>
    THEN CHOOSE b \in Buckets :
             /\ b > i /\ ddtrace_hashtbl[b] # <<>>
             /\ \A c \in Buckets : c > i /\ c < b => ddtrace_hashtbl[c] = <<>>
    ELSE DDTRACE_NHASH_BUCKETS

\* the client the two loops visit after position (i, k): k itself, or the
\* head of the next non-empty bucket when bucket i is exhausted
ScanFrom(i, k) ==
    IF k # NULL THEN [i |-> i, k |-> k]
    ELSE IF NextBucket(i) = DDTRACE_NHASH_BUCKETS
    THEN [i |-> DDTRACE_NHASH_BUCKETS, k |-> NULL]
    ELSE [i |-> NextBucket(i),
          k |-> LIST_FIRST(ddtrace_hashtbl[NextBucket(i)])]

\* shutdown_pre_sync or MOD_UNLOAD enters ddtrace_stop
StopBegin ==
    /\ ~panicked
    /\ stopper.pc = "idle"
    /\ stopper' = [pc |-> "scan", i |-> ScanFrom(-1, NULL).i,
                   k |-> ScanFrom(-1, NULL).k, k_tmp |-> NULL,
                   woken |-> FALSE]
    /\ UNCHANGED <<regVars, client, thread, dtrace_lock, closer, panicked,
                   histVars, envVars>>

\* loop body up to cv_broadcast for client k; k_tmp is k's successor
StopSignal ==
    /\ ~panicked
    /\ stopper.pc = "scan"
    /\ stopper.k # NULL
    /\ stopper' = [stopper EXCEPT !.pc = "signalled",
                       !.k_tmp = LIST_NEXT(ddtrace_hashtbl[stopper.i],
                                           stopper.k)]
    /\ client' = [client EXCEPT ![stopper.k].ddtrace_exit = 1]
    /\ Deref(stopper.k)
    /\ UNCHANGED <<regVars, thread, dtrace_lock, closer, histVars, envVars>>

\* tsleep(k->ddtrace_pid, ...) begins
StopSleep ==
    /\ ~panicked
    /\ stopper.pc = "signalled"
    /\ stopper' = [stopper EXCEPT !.pc = "tsleep"]
    /\ UNCHANGED <<regVars, client, thread, dtrace_lock, closer, panicked,
                   histVars, envVars>>

\* tsleep returned 0: remove and destroy k, go on with k_tmp
StopWake ==
    /\ ~panicked
    /\ stopper.pc = "tsleep"
    /\ stopper.woken
    /\ ddtrace_hashtbl' = [ddtrace_hashtbl EXCEPT ![stopper.i] =
           LIST_REMOVE(@, stopper.k)]
    /\ client' = [client EXCEPT ![stopper.k].mem = "freed"]
    /\ Deref(stopper.k)
    /\ stopper' = [pc |-> "scan",
                   i |-> ScanFrom(stopper.i, stopper.k_tmp).i,
                   k |-> ScanFrom(stopper.i, stopper.k_tmp).k,
                   k_tmp |-> NULL, woken |-> FALSE]
    /\ opened' = opened \ {client[stopper.k].ddtrace_state}
    /\ UNCHANGED <<hashtbl_destroyed, registered, thread, dtrace_lock,
                   closer, last_log, dup_open, open_arg, envVars>>

\* tsleep returned EWOULDBLOCK: DL_ASSERT(rc == 0) fails
StopTimeout ==
    /\ ~panicked
    /\ stopper.pc = "tsleep"
    /\ ~stopper.woken
    /\ panicked' = TRUE
    /\ stopper' = [stopper EXCEPT !.pc = "asserted"]
    /\ UNCHANGED <<regVars, client, thread, dtrace_lock, closer, histVars,
                   envVars>>

\* hashdestroy(ddtrace_hashtbl, ...) after the scan
StopDestroy ==
    /\ ~panicked
    /\ stopper.pc = "scan"
    /\ stopper.k = NULL
    /\ hashtbl_destroyed' = TRUE
    /\ stopper' = [stopper EXCEPT !.pc = "destroyed"]
    /\ UNCHANGED <<ddtrace_hashtbl, registered, client, thread, dtrace_lock,
                   closer, panicked, histVars, envVars>>

\* dtrace_dist_unregister, then ddtrace_stop returns
StopFinish ==
    /\ ~panicked
    /\ stopper.pc = "destroyed"
    /\ registered' = FALSE
    /\ stopper' = [stopper EXCEPT !.pc = "done"]
    /\ UNCHANGED <<ddtrace_hashtbl, hashtbl_destroyed, client, thread,
                   dtrace_lock, closer, panicked, histVars, envVars>>

(* --------------------------- specification ----------------------------- *)

\* a tracing state that ddtrace_open accepts
GoodStates ==
    {st \in DtraceStates :
        /\ st.dte_size = <<DL_MTU>>
        /\ st.bufpolicy = "switch"
        /\ st.ddtracearg = 6}

ThreadStep(k) ==
    \/ ThreadMetadataFormats(k)
    \/ ThreadMetadataFormatsExit(k)
    \/ ThreadMetadataEprobes(k)
    \/ ThreadMetadataEprobesExit(k)
    \/ ThreadWake(k)
    \/ ThreadAliveMax(k)
    \/ ThreadAliveNow(k)
    \/ ThreadAliveStore(k)
    \/ ThreadSwitch(k)
    \/ ThreadFinalSwitch(k)
    \/ ThreadExit(k)

\* the clock advances
Tick ==
    /\ ~panicked
    /\ hrtime < MaxTime
    /\ hrtime' = hrtime + 1
    /\ UNCHANGED <<regVars, client, thread, lifeVars, panicked, histVars,
                   dts_alive, seen, settled, bufVars>>

\* an outside reader (the DTrace deadman) loads state->dts_alive
Sample(state) ==
    /\ ~panicked
    /\ seen' = [seen EXCEPT ![state] = dts_alive[state]]
    /\ settled' = [settled EXCEPT ![state] =
           IF dts_alive[state] = INT64_MAX THEN @ ELSE dts_alive[state]]
    /\ UNCHANGED <<regVars, client, thread, lifeVars, panicked, histVars,
                   hrtime, dts_alive, bufVars>>

CloseStep ==
    \/ \E state \in Handles : CloseSignal(state)
    \/ CloseSleep
    \/ CloseWake
    \/ CloseTimeout

StopStep ==
    \/ StopBegin
    \/ StopSignal
    \/ StopSleep
    \/ StopWake
    \/ StopTimeout
    \/ StopDestroy
    \/ StopFinish

\* open and close callbacks and the client threads
Next ==
    \/ \E state \in Handles, st \in GoodStates : ddtrace_open(state, st)
    \/ CloseStep
    \/ \E k \in ClientIds : ThreadStep(k)

Spec == Init /\ [][Next]_vars

\* the same with shutdown or module unload running ddtrace_stop
NextStop ==
    \/ Next
    \/ StopStep

SpecStop == Init /\ [][NextStop]_vars

\* ddtrace_open over every tracing state DTrace may hand it
NextOpen ==
    \E state \in {1, 17}, st \in DtraceStates : ddtrace_open(state, st)

SpecOpen == Init /\ [][NextOpen]_vars

\* values an administrator may write to kern.ddtrace.record_bound
RecordBounds == 1..(DL_MTU + 1)

\* sysctl kern.ddtrace.record_bound=v (CTLFLAG_RW)
SysctlRecordBound(v) ==
    /\ ~panicked
    /\ v # ddtrace_record_bound
    /\ ddtrace_record_bound' = v
    /\ UNCHANGED <<regVars, client, thread, lifeVars, panicked, histVars,
                   aliveVars, dts_buffer, dts_errors, memory, tq, written,
                   handed, unlocked, harvest, conVars>>

\* ddtrace_open over every tracing state, next to writes of the sysctl
NextBound ==
    \/ NextOpen
    \/ \E v \in RecordBounds : SysctlRecordBound(v)

SpecBound == Init /\ [][NextBound]_vars

\* the sessions of one tracing state, the clock and a reader of dts_alive
AliveState == 17

NextAlive ==
    \/ \E st \in GoodStates : ddtrace_open(AliveState, st)
    \/ CloseSignal(AliveState)
    \/ CloseSleep
    \/ CloseWake
    \/ CloseTimeout
    \/ \E k \in ClientIds : ThreadStep(k)
    \/ Tick
    \/ Sample(AliveState)

SpecAlive == Init /\ [][NextAlive]_vars

(* ------------------- one session draining one region ------------------ *)

FramerState == 17

\* record size of the enabled probe ids of FramerState, in words
FramerSizes == <<1, DL_MTU>>

\* the words of the n-th thing written to a region: a filler is the word
\* DTRACE_EPIDNONE, a record is its probe id followed by its payload; of
\* a record whose probe id is not in the table only the id is known
RecordWords(epid, n) ==
    IF epid \notin 1..Len(FramerSizes) THEN <<epid>>
    ELSE <<epid>> \o [j \in 1..(FramerSizes[epid] - 1) |-> 10 * n + j]

RECURSIVE Flatten(_, _)
Flatten(recs, n) ==
    IF recs = <<>> THEN <<>>
    ELSE RecordWords(Head(recs), n) \o Flatten(Tail(recs), n + 1)

\* what the probes of one CPU may have written since the last switch
RegionContents ==
    UNION {[1..n -> 0..Len(FramerSizes)] : n \in 1..MaxRecs}

\* a probe id that FramerState has no enabling for: its record size is 0
UnknownEpid == Len(FramerSizes) + 1

\* regions in which a record of an unknown probe id is found
UnknownContents ==
    {recs \in UNION {[1..n -> 0..UnknownEpid] : n \in 1..MaxRecs} :
        \E i \in 1..Len(recs) : recs[i] = UnknownEpid}

\* a session of FramerState after its metadata export, waiting for the
\* poll period to end, whose probes on CPU 0 have written recs, one of
\* contents, and have counted drops and errors
InitRegion(contents, counts) ==
    /\ ddtrace_hashtbl =
           [b \in Buckets |-> IF b = Hash(FramerState) THEN <<1>> ELSE <<>>]
    /\ hashtbl_destroyed = FALSE
    /\ registered = TRUE
    /\ client = [k \in ClientIds |->
           IF k = 1
           THEN [mem |-> "live", ddtrace_state |-> FramerState,
                 ddtrace_exit |-> 0, ddtrace_dlog_handle |-> 6,
                 ddtrace_pid |-> 1]
           ELSE NoClient]
    /\ thread = [k \in ClientIds |->
           IF k = 1 THEN [NoThread EXCEPT !.pc = "wait", !.exports = 1]
           ELSE NoThread]
    /\ dtrace_lock = "free"
    /\ closer = [pc |-> "idle", state |-> NULL, k |-> NULL, woken |-> FALSE]
    /\ stopper = [pc |-> "idle", i |-> 0, k |-> NULL, k_tmp |-> NULL,
                  woken |-> FALSE]
    /\ panicked = FALSE
    /\ last_log = "ddtrace_open"
    /\ open_arg = [dte_size |-> FramerSizes, bufpolicy |-> "switch",
                   ddtracearg |-> 6]
    /\ opened = {FramerState}
    /\ dup_open = FALSE
    /\ hrtime = 0
    /\ dts_alive = [h \in Handles |-> 0]
    /\ seen = [h \in Handles |-> 0]
    /\ settled = [h \in Handles |-> 0]
    /\ dts_errors = [h \in Handles |-> 0]
    /\ tq = <<>>
    /\ handed = <<>>
    /\ unlocked = {}
    /\ harvest = NoHarvest
    /\ ddtrace_record_bound = RECORD_BOUND_DEFAULT
    /\ InitConsumer
    /\ \E recs \in contents, drops \in counts, errors \in counts :
         LET words == Flatten(recs, 1) IN
         /\ dts_buffer = [h \in Handles |-> [c \in Cpus |->
                IF h = FramerState /\ c = 0
                THEN [AllocBuffer(h, c) EXCEPT !.dtb_offset = Len(words),
                                               !.dtb_drops = drops,
                                               !.dtb_errors = errors]
                ELSE AllocBuffer(h, c)]]
         /\ memory = [r \in Regions |-> [i \in 1..BufSize |->
                IF r = Region(FramerState, 0, 1) /\ i <= Len(words)
                THEN words[i] ELSE DTRACE_EPIDNONE]]
         /\ written = [h \in Handles |-> [c \in Cpus |->
                IF h = FramerState /\ c = 0 THEN words ELSE <<>>]]

InitFramer == InitRegion(RegionContents, {0, 1})

InitUnknown == InitRegion(UnknownContents, {0})

NextFramer ==
    \/ ThreadWake(1)
    \/ ThreadAliveMax(1)
    \/ ThreadAliveNow(1)
    \/ ThreadAliveStore(1)
    \/ ThreadSwitch(1)

SpecFramer == InitFramer /\ [][NextFramer]_vars

\* the same session draining a region that holds a record of unknown size
SpecUnknown == InitUnknown /\ [][NextFramer]_vars

(* ---------------- one session draining what probes write --------------- *)

\* one session of FramerState after its metadata export, its thread
\* waiting for the poll period to end; nothing has been traced yet
InitSession ==
    /\ ddtrace_hashtbl =
           [b \in Buckets |-> IF b = Hash(FramerState) THEN <<1>> ELSE <<>>]
    /\ hashtbl_destroyed = FALSE
    /\ registered = TRUE
    /\ client = [k \in ClientIds |->
           IF k = 1
           THEN [mem |-> "live", ddtrace_state |-> FramerState,
                 ddtrace_exit |-> 0, ddtrace_dlog_handle |-> 6,
                 ddtrace_pid |-> 1]
           ELSE NoClient]
    /\ thread = [k \in ClientIds |->
           IF k = 1 THEN [NoThread EXCEPT !.pc = "wait", !.exports = 1]
           ELSE NoThread]
    /\ dtrace_lock = "free"
    /\ closer = [pc |-> "idle", state |-> NULL, k |-> NULL, woken |-> FALSE]
    /\ stopper = [pc |-> "idle", i |-> 0, k |-> NULL, k_tmp |-> NULL,
                  woken |-> FALSE]
    /\ panicked = FALSE
    /\ last_log = "ddtrace_open"
    /\ open_arg = [dte_size |-> FramerSizes, bufpolicy |-> "switch",
                   ddtracearg |-> 6]
    /\ opened = {FramerState}
    /\ dup_open = FALSE
    /\ hrtime = 0
    /\ dts_alive = [h \in Handles |-> 0]
    /\ seen = [h \in Handles |-> 0]
    /\ settled = [h \in Handles |-> 0]
    /\ dts_errors = [h \in Handles |-> 0]
    /\ tq = <<>>
    /\ handed = <<>>
    /\ unlocked = {}
    /\ harvest = NoHarvest
    /\ ddtrace_record_bound = RECORD_BOUND_DEFAULT
    /\ InitConsumer
    /\ memory = [r \in Regions |-> [i \in 1..BufSize |-> DTRACE_EPIDNONE]]
    /\ written = [h \in Handles |-> [c \in Cpus |-> <<>>]]

\* the session with tracing enabled on every CPU
InitOrder ==
    /\ InitSession
    /\ dts_buffer = [h \in Handles |-> [c \in Cpus |-> AllocBuffer(h, c)]]

\* words the probes write on a CPU in one run: enough for two regions on
\* CPU 0, one word on CPU 1, none on the others
OrderWords(cpu) == IF cpu = 0 THEN DL_MTU + 1 ELSE IF cpu = 1 THEN 1 ELSE 0

\* a probe of FramerState fires on a CPU: the probe context reserves room
\* in the active region and stores the record there
ProbeWrite(cpu, epid) ==
    LET buf == dts_buffer[FramerState][cpu]
        words == RecordWords(epid, Len(written[FramerState][cpu]) + 1)
    IN /\ ~panicked
       /\ buf.dtb_tomax # NULL
       /\ Len(written[FramerState][cpu]) + Len(words) <= OrderWords(cpu)
       /\ buf.dtb_offset + Len(words) <= BufSize
       /\ memory' = [memory EXCEPT ![buf.dtb_tomax] =
              [i \in 1..BufSize |->
                  IF i > buf.dtb_offset /\ i <= buf.dtb_offset + Len(words)
                  THEN words[i - buf.dtb_offset] ELSE @[i]]]
       /\ dts_buffer' = [dts_buffer EXCEPT ![FramerState][cpu].dtb_offset =
              @ + Len(words)]
       /\ written' = [written EXCEPT ![FramerState][cpu] = @ \o words]
       /\ UNCHANGED <<regVars, client, thread, lifeVars, panicked, histVars,
                      aliveVars, dts_errors, tq, handed, unlocked, harvest,
                      ddtrace_record_bound, conVars>>

\* probes fire at any time; the steps of the thread between its wake and
\* its switch touch no buffer, so firing before or after them is the same
NextOrder ==
    \/ \E cpu \in Cpus, epid \in 1..Len(FramerSizes) :
          thread[1].pc \in {"wait", "switch"} /\ ProbeWrite(cpu, epid)
    \/ ThreadWake(1)
    \/ ThreadAliveMax(1)
    \/ ThreadAliveNow(1)
    \/ ThreadAliveStore(1)
    \/ ThreadSwitch(1)

SpecOrder == InitOrder /\ [][NextOrder]_vars

\* the virtio driver takes the oldest entry off the trace queue, at a time
\* of its own choosing: the thread never waits for it
vtdtr_tq_dequeue ==
    /\ ~panicked
    /\ tq # <<>>
    /\ tq' = Tail(tq)
    /\ UNCHANGED <<regVars, client, thread, lifeVars, panicked, histVars,
                   aliveVars, dts_buffer, dts_errors, memory, written,
                   handed, unlocked, harvest, ddtrace_record_bound, conVars>>

\* probes, the thread of the session and the reader of the trace queue
SpecHandoff == InitOrder /\ [][NextOrder \/ vtdtr_tq_dequeue]_vars

(* ------------- the sessions of one traced state, from open ------------- *)

\* the tracing state DTrace hands to the open of FramerState
FramerArg ==
    [dte_size |-> FramerSizes, bufpolicy |-> "switch", ddtracearg |-> 6]

\* the module after MOD_LOAD, tracing enabled on every CPU
InitLife ==
    /\ InitModule
    /\ dts_buffer = [h \in Handles |-> [c \in Cpus |-> AllocBuffer(h, c)]]
    /\ memory = [r \in Regions |-> [i \in 1..BufSize |-> DTRACE_EPIDNONE]]
    /\ written = [h \in Handles |-> [c \in Cpus |-> <<>>]]

\* open and close of FramerState, the client threads, and one firing of
\* its largest probe on CPU 0 after the state was opened
NextLife ==
    \/ ddtrace_open(FramerState, FramerArg)
    \/ CloseSignal(FramerState)
    \/ CloseSleep
    \/ CloseWake
    \/ CloseTimeout
    \/ \E k \in ClientIds : ThreadStep(k)
    \/ /\ FramerState \in opened
       /\ written[FramerState][0] = <<>>
       /\ ProbeWrite(0, Len(FramerSizes))

SpecLife == InitLife /\ [][NextLife]_vars

(* ----------------------- ddtrace_consumer.c --------------------------- *)

\* what libdtrace hands to the buffered handler: the first character of a
\* fragment tells whether it opens or closes a JSON message
Fragments == {<<"{">>, <<"a">>, <<"}">>}

\* results of rd_kafka_produce
ProduceResults == {"ok", "queue_full", "other"}

\* results of dtrace_work_detached
WorkStatus == {"DTRACE_WORKSTATUS_OKAY", "DTRACE_WORKSTATUS_DONE",
               "DTRACE_WORKSTATUS_ERROR"}

ConsumerRuns == ~dtc_crashed /\ mainloop.pc \notin {"start", "exit"}

\* SIGINT or SIGTERM is delivered
dtc_intr ==
    /\ ConsumerRuns
    /\ g_intr = 0
    /\ g_intr' = 1
    /\ UNCHANGED <<kernVars, sideVars,
                   tx_rk, output_buf, handler, produced, frames,
                   mainloop, pumped, dtc_crashed>>

\* main() up to the loop: the producer and the buffered handler are set
\* up only when an output topic was given
MainSetup(tx) ==
    /\ ~dtc_crashed
    /\ mainloop.pc = "start"
    /\ tx_rk' = tx
    /\ mainloop' = [mainloop EXCEPT !.pc = "top"]
    /\ UNCHANGED <<kernVars, sideVars,
                   g_intr, output_buf, handler, produced, frames,
                   pumped, dtc_crashed>>

\* MainTop not looking at g_intr
MainTop_IgnoresIntr ==
    /\ ~dtc_crashed
    /\ mainloop.pc = "top"
    /\ mainloop.cycles < MaxCycles
    /\ mainloop' = [mainloop EXCEPT !.pc = "poll"]
    /\ pumped' = [pumped EXCEPT ![0] = FALSE]
    /\ UNCHANGED <<kernVars, sideVars,
                   g_intr, tx_rk, output_buf, handler, produced,
                   frames, dtc_crashed>>

\* top of the loop body: usleep, then done is set once g_intr is seen
MainTop ==
    /\ ~dtc_crashed
    /\ mainloop.pc = "top"
    /\ mainloop.cycles < MaxCycles
    /\ mainloop' = [mainloop EXCEPT
           !.pc = "poll",
           !.done = IF mainloop.done # 0 \/ g_intr # 0 THEN 1 ELSE @]
    /\ pumped' = [pumped EXCEPT ![0] = FALSE]
    /\ UNCHANGED <<kernVars, sideVars,
                   g_intr, tx_rk, output_buf, handler, produced,
                   frames, dtc_crashed>>

\* MainPoll serving the receive handle only
MainPoll_RxOnly ==
    /\ ~dtc_crashed
    /\ mainloop.pc = "poll"
    /\ mainloop' = [mainloop EXCEPT !.pc = "work"]
    /\ UNCHANGED <<kernVars, sideVars,
                   g_intr, tx_rk, output_buf, handler, produced,
                   frames, pumped, dtc_crashed>>

\* rd_kafka_poll(tx_rk, 0); rd_kafka_poll(rx_rk, 0): with no producer
\* handle the first call dereferences NULL
MainPoll ==
    /\ ~dtc_crashed
    /\ mainloop.pc = "poll"
    /\ IF tx_rk = NULL
       THEN /\ dtc_crashed' = TRUE
            /\ UNCHANGED <<mainloop, pumped>>
       ELSE /\ mainloop' = [mainloop EXCEPT !.pc = "work"]
            /\ pumped' = [pumped EXCEPT ![0] = TRUE]
            /\ UNCHANGED dtc_crashed
    /\ UNCHANGED <<kernVars, sideVars,
                   g_intr, tx_rk, output_buf, handler, produced,
                   frames>>

\* dtc_buffered_handler not copying the closing fragment into the buffer
dtc_buffered_handler_DropsClose(frag) ==
    /\ ~dtc_crashed
    /\ mainloop.pc = "work"
    /\ handler.pc = "idle"
    /\ handler.nfrag < MaxFrags
    /\ LET opened_buf == IF frag[1] = "{"
                         THEN [alloc |-> TRUE, data |-> <<>>]
                         ELSE output_buf
           filled == IF frag[1] = "}" THEN opened_buf
                     ELSE [opened_buf EXCEPT !.data = @ \o frag]
       IN IF \/ (frag[1] = "{" /\ output_buf.alloc)
             \/ ~opened_buf.alloc
          THEN \* DL_ASSERT(output_buf == NULL), or dl_bbuf_bcat on NULL
               /\ dtc_crashed' = TRUE
               /\ handler' = [handler EXCEPT !.arrived = Append(@, frag)]
               /\ UNCHANGED output_buf
          ELSE /\ output_buf' = filled
               /\ handler' = [handler EXCEPT
                      !.pc = IF frag[1] = "}" THEN "produce" ELSE "idle",
                      !.frame = IF frag[1] = "}" THEN filled.data ELSE @,
                      !.fulls = 0,
                      !.polls = 0,
                      !.rc = 0,
                      !.err = "none",
                      !.nfrag = @ + 1,
                      !.arrived = Append(@, frag)]
               /\ UNCHANGED dtc_crashed
    /\ UNCHANGED <<kernVars, sideVars,
                   g_intr, tx_rk, produced, frames, mainloop,
                   pumped>>

\* dtc_buffered_handler up to the retry label, called by libdtrace from
\* dtrace_work_detached with one fragment of output; arrived keeps the
\* fragments of all calls
dtc_buffered_handler(frag) ==
    /\ ~dtc_crashed
    /\ mainloop.pc = "work"
    /\ handler.pc = "idle"
    /\ handler.nfrag < MaxFrags
    /\ LET opened_buf == IF frag[1] = "{"
                         THEN [alloc |-> TRUE, data |-> <<>>]
                         ELSE output_buf
           filled == [opened_buf EXCEPT !.data = @ \o frag]
       IN IF \/ (frag[1] = "{" /\ output_buf.alloc)
             \/ ~opened_buf.alloc
          THEN \* DL_ASSERT(output_buf == NULL), or dl_bbuf_bcat on NULL
               /\ dtc_crashed' = TRUE
               /\ handler' = [handler EXCEPT !.arrived = Append(@, frag)]
               /\ UNCHANGED output_buf
          ELSE /\ output_buf' = filled
               /\ handler' = [handler EXCEPT
                      !.pc = IF frag[1] = "}" THEN "produce" ELSE "idle",
                      !.frame = IF frag[1] = "}" THEN filled.data ELSE @,
                      !.fulls = 0,
                      !.polls = 0,
                      !.rc = 0,
                      !.err = "none",
                      !.nfrag = @ + 1,
                      !.arrived = Append(@, frag)]
               /\ UNCHANGED dtc_crashed
    /\ UNCHANGED <<kernVars, sideVars,
                   g_intr, tx_rk, produced, frames, mainloop,
                   pumped>>

\* dl_bbuf_delete(output_buf); output_buf = NULL; return 0
HandlerRelease(fate) ==
    /\ output_buf' = NoBbuf
    /\ frames' = Append(frames, [payload |-> handler.frame,
                                 fulls |-> handler.fulls,
                                 polls |-> handler.polls, fate |-> fate])

\* rd_kafka_produce copies the payload and queues it
ProduceEnqueued ==
    /\ ~dtc_crashed
    /\ handler.pc = "produce"
    /\ produced' = Append(produced, output_buf.data)
    /\ handler' = [handler EXCEPT !.pc = "idle", !.rc = 0, !.err = "ok"]
    /\ HandlerRelease("enqueued")
    /\ UNCHANGED <<kernVars, sideVars,
                   g_intr, tx_rk, mainloop, pumped, dtc_crashed>>

\* ProduceQueueFull retrying at once, without rd_kafka_poll
ProduceQueueFull_NoPoll ==
    /\ ~dtc_crashed
    /\ handler.pc = "produce"
    /\ handler.fulls < MaxPolls
    /\ handler' = [handler EXCEPT !.fulls = @ + 1, !.err = "queue_full"]
    /\ UNCHANGED <<kernVars, sideVars,
                   g_intr, tx_rk, output_buf, produced, frames,
                   mainloop, pumped, dtc_crashed>>

\* rd_kafka_produce fails with RD_KAFKA_RESP_ERR__QUEUE_FULL:
\* rd_kafka_poll(tx_rk, 1000) and goto retry
ProduceQueueFull ==
    /\ ~dtc_crashed
    /\ handler.pc = "produce"
    /\ handler.fulls < MaxPolls
    /\ handler' = [handler EXCEPT !.fulls = @ + 1, !.polls = @ + 1,
                                  !.err = "queue_full"]
    /\ UNCHANGED <<kernVars, sideVars,
                   g_intr, tx_rk, output_buf, produced, frames,
                   mainloop, pumped, dtc_crashed>>

\* ProduceFailed retrying after every error
ProduceFailed_Retries ==
    /\ ~dtc_crashed
    /\ handler.pc = "produce"
    /\ handler.polls < MaxPolls
    /\ handler' = [handler EXCEPT !.polls = @ + 1, !.err = "other"]
    /\ UNCHANGED <<kernVars, sideVars,
                   g_intr, tx_rk, output_buf, produced, frames,
                   mainloop, pumped, dtc_crashed>>

\* rd_kafka_produce fails with another error: the message is given up
ProduceFailed ==
    /\ ~dtc_crashed
    /\ handler.pc = "produce"
    /\ handler' = [handler EXCEPT !.pc = "idle", !.rc = 0, !.err = "other"]
    /\ HandlerRelease("dropped")
    /\ UNCHANGED <<kernVars, sideVars,
                   g_intr, tx_rk, produced, mainloop, pumped,
                   dtc_crashed>>

\* dtrace_work_detached returns and the loop condition is tested
WorkReturn(status) ==
    /\ ~dtc_crashed
    /\ mainloop.pc = "work"
    /\ handler.pc = "idle"
    /\ LET d == IF status = "DTRACE_WORKSTATUS_OKAY" THEN mainloop.done
                ELSE 1
       IN mainloop' = [mainloop EXCEPT
              !.done = d,
              !.cycles = @ + 1,
              !.pc = IF d # 0 THEN "flush" ELSE "top"]
    /\ UNCHANGED <<kernVars, sideVars,
                   g_intr, tx_rk, output_buf, handler, produced,
                   frames, pumped, dtc_crashed>>

\* rd_kafka_flush(tx_rk, ...), the destroy calls and return
MainFlush ==
    /\ ~dtc_crashed
    /\ mainloop.pc = "flush"
    /\ IF tx_rk = NULL
       THEN dtc_crashed' = TRUE /\ UNCHANGED mainloop
       ELSE mainloop' = [mainloop EXCEPT !.pc = "exit"]
            /\ UNCHANGED dtc_crashed
    /\ UNCHANGED <<kernVars, sideVars,
                   g_intr, tx_rk, output_buf, handler, produced,
                   frames, pumped>>

NextConsumer ==
    \/ \E tx \in {NULL, 1} : MainSetup(tx)
    \/ dtc_intr
    \/ MainTop
    \/ MainPoll
    \/ \E frag \in Fragments : dtc_buffered_handler(frag)
    \/ ProduceEnqueued
    \/ ProduceQueueFull
    \/ ProduceFailed
    \/ \E status \in WorkStatus : WorkReturn(status)
    \/ MainFlush

SpecConsumer == Init /\ [][NextConsumer]_vars

(* ------------- dtc_setup_rx_topic, dtc_setup_tx_topic ------------------ *)

\* the library calls of a setup function in program order, each with the
\* label its failure branch jumps to; the six TLS settings are made only
\* when all four TLS arguments were given
SetupSteps(fn, tls) ==
    LET Set(label) == [call |-> "rd_kafka_conf_set", label |-> label]
        Tls == IF tls THEN [i \in 1..6 |-> Set("new_err")] ELSE <<>>
        Last(label) ==
            <<[call |-> "rd_kafka_new", label |-> label],
              [call |-> "rd_kafka_topic_new", label |-> "new_err"]>>
    IN  <<[call |-> "rd_kafka_conf_new", label |-> "err"]>> \o
        (IF fn = "dtc_setup_rx_topic"
         THEN [i \in 1..9 |-> Set("new_err")] \o Tls \o Last("new_err")
         ELSE <<Set("conf_err"), Set("conf_err"), Set("new_err"),
                Set("conf_err")>> \o Tls \o Last("conf_err"))

\* main() calls a setup function; rx_rk and tx_rk are static and NULL
dtc_setup_begin(fn, tls) ==
    /\ ~dtc_crashed
    /\ setup.pc = 0
    /\ setup' = [setup EXCEPT !.fn = fn, !.tls = tls, !.pc = 1]
    /\ UNCHANGED <<kernVars, mainVars, rkmessage, bufp, dthyve>>

\* the next library call of the setup function succeeds or fails; after a
\* failure the code from the label down to return -1 runs, after the last
\* success return 0. rd_kafka_new passes the conf object to the handle,
\* rd_kafka_destroy frees the handle with the conf it owns; destroying a
\* NULL handle or a freed conf is recorded in misuse, the call that failed
\* in failed
dtc_setup_step(ok) ==
    LET steps == SetupSteps(setup.fn, setup.tls)
        step == steps[setup.pc]
        after == CASE ~ok -> setup
                   [] step.call = "rd_kafka_conf_new" ->
                          [setup EXCEPT !.conf = "live"]
                   [] step.call = "rd_kafka_new" ->
                          [setup EXCEPT !.rk = "live", !.conf = "owned"]
                   [] OTHER -> setup
        destroy_rk(c) ==
            IF c.rk = "none"
            THEN [c EXCEPT !.misuse = @ \cup {"rd_kafka_destroy(NULL)"}]
            ELSE [c EXCEPT !.rk = "destroyed", !.conf = "destroyed"]
        destroy_conf(c) ==
            IF c.conf = "live"
            THEN [c EXCEPT !.conf = "destroyed"]
            ELSE [c EXCEPT !.misuse =
                     @ \cup {"rd_kafka_conf_destroy(" \o c.conf \o ")"}]
        cleaned == CASE step.label = "new_err" ->
                            destroy_conf(destroy_rk(after))
                     [] step.label = "conf_err" -> destroy_conf(after)
                     [] OTHER -> after
    IN  /\ ~dtc_crashed
        /\ setup.pc \in 1..Len(steps)
        /\ setup' = IF ok
                    THEN [after EXCEPT !.pc = @ + 1, !.ret = 0]
                    ELSE [cleaned EXCEPT !.pc = Len(steps) + 1,
                                         !.failed = setup.pc, !.ret = -1]
        /\ UNCHANGED <<kernVars, mainVars, rkmessage, bufp, dthyve>>

\* one call of either setup function, with and without TLS arguments
SpecSetup ==
    Init /\ [][\/ \E fn \in {"dtc_setup_rx_topic", "dtc_setup_tx_topic"},
                     tls \in BOOLEAN : dtc_setup_begin(fn, tls)
               \/ \E ok \in BOOLEAN : dtc_setup_step(ok)]_vars

(* ------------------------------ dthyve.c ------------------------------- *)

\* dthyve_configured(): sockfd != -1
dthyve_configured == dthyve.sockfd # -1

\* dthyve_init(): socket, connect and open each succeed or fail; socket and
\* open return the lowest free descriptor
dthyve_init(res) ==
    LET sock == [dthyve EXCEPT !.fds[3] = "socket"]
        conn == [sock EXCEPT !.fds[3] = "connected", !.sockfd = 3]
        d == CASE res = "socket fails" -> [dthyve EXCEPT !.rval = -1]
               [] res = "connect fails" ->
                      [sock EXCEPT !.sockfd = -1, !.rval = -1]
               [] res = "open fails" -> [conn EXCEPT !.rval = 0]
               [] OTHER -> [conn EXCEPT !.fds[4] = "file", !.filefd = 4,
                                        !.rval = 0]
    IN  /\ dthyve.call = "none"
        /\ dthyve' = [d EXCEPT !.call = "dthyve_init"]
        /\ UNCHANGED <<kernVars, mainVars, rkmessage, bufp, setup>>

\* dthyve_read(buf, len): r1 and r2 are what the two recv calls meet when
\* sockfd names a connected socket ("error", "eof" or "data"), data is
\* what the peer sends after its length; recv on a descriptor that is not
\* open fails; *buf is allocated and zeroed before the second recv
dthyve_read(buf_null, r1, r2, data) ==
    LET n == Len(data)
        zeros == [i \in 1..n |-> 0]
        good == dthyve.fds[dthyve.sockfd] = "connected"
        first == IF good THEN r1 ELSE "error"
        second == IF good THEN r2 ELSE "error"
        eof(c) == [c EXCEPT !.fds[dthyve.sockfd] = "closed", !.sockfd = -1,
                            !.rval = -1]
        d == IF buf_null \/ dthyve.sockfd = -1
             THEN [dthyve EXCEPT !.rval = -1, !.recvs = 0]
             ELSE IF first = "error"
             THEN [dthyve EXCEPT !.rval = -1, !.recvs = 1]
             ELSE IF first = "eof"
             THEN eof([dthyve EXCEPT !.recvs = 1])
             ELSE IF second = "error"
             THEN [dthyve EXCEPT !.rval = -1, !.recvs = 2, !.len = n,
                                 !.buf = zeros]
             ELSE IF second = "eof"
             THEN eof([dthyve EXCEPT !.recvs = 2, !.len = n, !.buf = zeros])
             ELSE [dthyve EXCEPT !.rval = 0, !.recvs = 2, !.len = n,
                                 !.buf = data]
    IN  /\ dthyve.call # "none"
        /\ dthyve' = [d EXCEPT !.call = "dthyve_read"]
        /\ UNCHANGED <<kernVars, mainVars, rkmessage, bufp, setup>>

\* dthyve_destroy(): close(sockfd)
dthyve_destroy ==
    /\ dthyve.call # "none"
    /\ dthyve' = [dthyve EXCEPT
           !.fds = IF dthyve.sockfd = -1 THEN @
                   ELSE [@ EXCEPT ![dthyve.sockfd] = "closed"],
           !.call = "dthyve_destroy", !.rval = 0, !.recvs = 0]
    /\ UNCHANGED <<kernVars, mainVars, rkmessage, bufp, setup>>

\* bhyve calling dthyve_init once and then reading or destroying
SpecDthyve ==
    Init /\ [][\/ \E res \in {"socket fails", "connect fails",
                                "open fails", "ok"} : dthyve_init(res)
               \/ \E buf_null \in BOOLEAN, r1, r2 \in {"error", "eof", "data"},
                     data \in UNION {[1..n -> {7, 8}] : n \in 0..DL_MTU} :
                        dthyve_read(buf_null, r1, r2, data)
               \/ dthyve_destroy]_vars

(* ---------------------------- dtc_get_buf ------------------------------ *)

\* the bytes of the string literal "ddtrace"
DdtraceKey == <<"d", "d", "t", "r", "a", "c", "e">>

\* messages the broker may deliver: err is 0 or an error code, len is the
\* length of the payload, key points to key_len bytes or is NULL
KafkaMessages ==
    LET Keys == {<<>>} \cup {<<SubSeq(DdtraceKey, 1, n)>> : n \in 0..7}
                \cup {<<DdtraceKey \o <<"x">> >>, <<<<"x">>>>,
                      <<<<"d", "x">>>>, <<<<"e", "c", "a", "r", "t">>>>}
        Payloads == UNION {[1..n -> {7, 8}] : n \in 0..DL_MTU}
    IN  {[err |-> e, len |-> Len(p), payload |-> p, key |-> k,
          key_len |-> IF k = <<>> THEN 0 ELSE Len(k[1])] :
             e \in {0, 1}, p \in Payloads, k \in Keys}

\* strncmp(3): compares at most n characters and not beyond a NUL; s1 has
\* n bytes, s2 is a NUL-terminated literal; 0 when equal, 1 otherwise
RECURSIVE strncmp(_, _, _)
strncmp(s1, s2, n) ==
    IF n = 0 THEN 0
    ELSE LET c1 == IF s1 = <<>> THEN "NUL" ELSE Head(s1)
             c2 == IF s2 = <<>> THEN "NUL" ELSE Head(s2)
         IN  IF c1 # c2 THEN 1
             ELSE IF c1 = "NUL" THEN 0
             ELSE strncmp(Tail(s1), Tail(s2), n - 1)

\* dtc_get_buf(dtp, cpu, bufp) when rd_kafka_consume returns rkm
dtc_get_buf(rkm, cpu) ==
    LET zalloc == [dtbd_size |-> 0, dtbd_cpu |-> 0, dtbd_data |-> <<>>]
        msg == rkm[1]
        buf == IF rkm = <<>> THEN zalloc
               ELSE IF msg.err = 0 /\ msg.len > 0
               THEN IF /\ msg.key # <<>>
                       /\ strncmp(msg.key[1], DdtraceKey, msg.key_len) = 0
                    THEN [dtbd_size |-> msg.len, dtbd_cpu |-> cpu,
                          dtbd_data |-> <<msg.payload>>]
                    ELSE [zalloc EXCEPT !.dtbd_size = 0]
               ELSE [zalloc EXCEPT !.dtbd_size = 0]
    IN  /\ ~dtc_crashed
        /\ rkmessage' = rkm
        /\ bufp' = <<buf>>
        /\ UNCHANGED <<kernVars, mainVars, setup, dthyve>>

\* the consumer reading one message after another from the broker
SpecGetBuf ==
    Init /\ [][\E rkm \in {<<>>} \cup {<<m>> : m \in KafkaMessages},
                  cpu \in Cpus : dtc_get_buf(rkm, cpu)]_vars

\* the consumer process next to one kernel session
NextPipeline ==
    \/ NextConsumer
    \/ ThreadWake(1)
    \/ ThreadAliveMax(1)
    \/ ThreadAliveNow(1)
    \/ ThreadAliveStore(1)
    \/ ThreadSwitch(1)

\* the session as Init leaves the buffers: CPU 0 never enabled
InitPipeline ==
    /\ InitSession
    /\ dts_buffer = [h \in Handles |-> [c \in Cpus |->
           IF c = 0 THEN NoBuffer ELSE AllocBuffer(h, c)]]

SpecPipeline == InitPipeline /\ [][NextPipeline]_vars

(* ------------------------------ claims --------------------------------- *)

\* tracing states that have a client linked into the hash table
RegistryStates == {client[k].ddtrace_state : k \in Linked}

\* C1: an open for a tracing state that already has a client in the hash
\* table inserts nothing, starts no thread and leaves the existing client
\* alone, so no two linked clients ever share a tracing state
C1_DuplicateOpenRejected ==
    [][/\ \A state \in Handles :
            (state \in RegistryStates /\ ddtrace_open(state, open_arg'))
                => UNCHANGED <<ddtrace_hashtbl, client, thread>>
       /\ \A k1, k2 \in Linked' :
            client'[k1].ddtrace_state = client'[k2].ddtrace_state => k1 = k2
      ]_vars

\* C2: no client is freed while its thread is still running
C2_FreedOnlyAfterThreadExit ==
    \A k \in ClientIds : client[k].mem = "freed" => ~Running(k)

\* C3: when the bounded wait of ddtrace_close or ddtrace_stop expires
\* with the thread still running, an assertion fails
C3_TimeoutIsFatal ==
    [][/\ (closer.pc = "tsleep" /\ ~closer.woken /\ Running(closer.k)
            /\ closer'.pc # "tsleep") => panicked'
       /\ (stopper.pc = "tsleep" /\ ~stopper.woken /\ Running(stopper.k)
            /\ stopper'.pc # "tsleep") => panicked'
      ]_vars

\* C4: with opens on distinct tracing states only, the hash table holds
\* exactly the states opened and not yet closed; once all are closed every
\* bucket is empty and every thread has terminated
C4_RegistryMatchesOpened ==
    ~dup_open =>
        /\ RegistryStates = opened
        /\ (opened = {} /\ closer.pc = "idle") =>
               /\ \A b \in Buckets : ddtrace_hashtbl[b] = <<>>
               /\ \A k \in ClientIds : ~Running(k)

\* C5: when ddtrace_stop returns the hash table is empty and no client
\* thread is running
C5_StopLeavesNothingRunning ==
    stopper.pc = "done" =>
        /\ \A b \in Buckets : ddtrace_hashtbl[b] = <<>>
        /\ \A k \in ClientIds : ~Running(k)

\* the buffer policy is "switch" and ddtracearg resolves to a DLog handle
PolicyAndHandleOk(st) ==
    /\ st.bufpolicy = "switch"
    /\ st.ddtracearg \in Fds
    /\ fget_locked(st.ddtracearg) # NULL
    /\ f_cdevpriv(fget_locked(st.ddtracearg)) # NULL
    /\ cdpd_data(f_cdevpriv(fget_locked(st.ddtracearg))) # NULL

\* C6: an open on a tracing state whose buffer policy is not "switch", or
\* whose ddtracearg is unset or does not resolve to a DLog handle, leaves
\* the hash table unchanged, allocates no client and starts no thread
C6_BadPolicyOrHandleRejected ==
    [][\A state \in Handles :
          (~PolicyAndHandleOk(open_arg') /\ ddtrace_open(state, open_arg'))
              => UNCHANGED <<regVars, client, thread>>
      ]_vars

C6_Witness ==
    /\ ~PolicyAndHandleOk(open_arg)
    /\ \A epid \in 1..Len(open_arg.dte_size) :
          open_arg.dte_size[epid] <= DL_MTU
    /\ last_log \notin {"none", "ddtrace_open"}
    /\ Linked # {}

\* C7: an open on a tracing state one of whose enabled probe ids has a
\* record size above the log MTU creates no client and starts no thread
\* (so no metadata is written)
C7_OversizeRecordRejected ==
    [][\A state \in Handles :
          (/\ \E epid \in 1..Len(open_arg'.dte_size) :
                 open_arg'.dte_size[epid] > DL_MTU
           /\ ddtrace_open(state, open_arg'))
              => UNCHANGED <<regVars, client, thread>>
      ]_vars

C7_Witness ==
    /\ \E epid \in 1..Len(open_arg.dte_size) :
          open_arg.dte_size[epid] > DL_MTU
    /\ PolicyAndHandleOk(open_arg)
    /\ last_log = "record size is greater than log MTU"
    /\ Linked # {}

\* C8: a thread that has seen the exit flag makes exactly one more call of
\* ddtrace_buffer_switch and exits; it starts no regular cycle any more
C8_OneFinalCycle ==
    \A k \in ClientIds :
        /\ thread[k].observed =>
               /\ thread[k].pc \in {"final", "exiting", "exited"}
               /\ thread[k].regular = 0
               /\ thread[k].post = IF thread[k].pc = "final" THEN 0 ELSE 1
        /\ thread[k].pc \in {"final", "exiting", "exited"} =>
               thread[k].observed

C8_Witness ==
    \E k \in ClientIds :
        thread[k].pc = "exited" /\ thread[k].observed /\ thread[k].post = 1

ThreadsOf(state) ==
    {k \in ClientIds :
        client[k].mem # "none" /\ client[k].ddtrace_state = state}

FrameWords(e) ==
    [i \in 1..e.dtbd_size |-> memory[e.dtbd_data][i]]

RECURSIVE ConcatFrames(_)
ConcatFrames(q) ==
    IF q = <<>> THEN <<>> ELSE FrameWords(Head(q)) \o ConcatFrames(Tail(q))

\* C10: once the region written by the probes has been drained, the
\* frames handed downstream, concatenated in the order they were handed,
\* are exactly the words that were written to it
C10_FramesReproduceRegion ==
    /\ tq # <<>> => ConcatFrames(tq) = written[FramerState][0]
    /\ dts_buffer[FramerState][0].dtb_offset = 0 => tq # <<>>

C10_Witness ==
    /\ tq # <<>>
    /\ Len(written[FramerState][0]) > DL_MTU

\* C11: every trace entry handed downstream is at most DL_MTU long
\* (an entry is a whole region, so it begins and ends on record
\* boundaries)
C11_FramesWithinMTU ==
    \A i \in 1..Len(tq) : tq[i].dtbd_size <= DL_MTU

\* CPU 0 of FramerState was switched and its region handed on or skipped
Drained == dts_buffer[FramerState][0].dtb_offset = 0

\* C12: a drained region of at most DL_MTU words, fillers or not, has
\* become exactly one trace entry, which covers all of it
C12_SmallRegionOneFrame ==
    (Len(written[FramerState][0]) <= DL_MTU /\ Drained) =>
        /\ Len(tq) = 1
        /\ tq[1].dtbd_size = Len(written[FramerState][0])

C12_Witness ==
    /\ Len(written[FramerState][0]) = DL_MTU
    /\ written[FramerState][0][1] = DTRACE_EPIDNONE
    /\ Drained
    /\ Len(tq) = 1

\* the CPU a region belongs to
RegionCpu(r) == (r % 100) \div 10

\* the words handed downstream for one CPU of FramerState, in the order
\* of the calls of ddtrace_persist_trace
RECURSIVE HandedWords(_, _)
HandedWords(h, cpu) ==
    IF h = <<>> THEN <<>>
    ELSE (IF RegionCpu(Head(h).dtbd_data) = cpu THEN Head(h).words ELSE <<>>)
             \o HandedWords(Tail(h), cpu)

IsPrefix(a, b) == Len(a) <= Len(b) /\ SubSeq(b, 1, Len(a)) = a

\* C18: for every CPU of a session the regions handed downstream, taken
\* in the order they were handed, are a prefix of what the probes wrote:
\* regions are handed in the order of their switches and none twice
C18_HandedInWriteOrder ==
    \A cpu \in Cpus :
        /\ IsPrefix(HandedWords(handed, cpu), written[FramerState][cpu])
        /\ \A i \in 1..Len(tq) :
              /\ tq[i].dtbd_data = handed[i].dtbd_data
              /\ tq[i].dtbd_size = Len(handed[i].words)
        /\ Len(tq) = Len(handed)

C18_Witness ==
    \E i, j \in 1..Len(handed) :
        /\ i < j
        /\ RegionCpu(handed[i].dtbd_data) = RegionCpu(handed[j].dtbd_data)
        /\ handed[i].dtbd_data # handed[j].dtbd_data
        /\ handed[i].words # handed[j].words

\* payloads of the messages that ended enqueued, oldest first
RECURSIVE EnqueuedPayloads(_)
EnqueuedPayloads(f) ==
    IF f = <<>> THEN <<>>
    ELSE (IF Head(f).fate = "enqueued" THEN <<Head(f).payload>> ELSE <<>>)
             \o EnqueuedPayloads(Tail(f))

\* C14: a message that rd_kafka_produce refused K times with queue-full
\* and then accepted is in the producer queue exactly once and unchanged,
\* and the handler has called rd_kafka_poll at least K times for it
C14_RetriedFrameEnqueuedOnce ==
    /\ produced = EnqueuedPayloads(frames)
    /\ \A i \in 1..Len(frames) :
          frames[i].fate = "enqueued" => frames[i].polls >= frames[i].fulls
    /\ handler.pc = "produce" =>
          /\ output_buf.alloc
          /\ output_buf.data = handler.frame
          /\ handler.polls >= handler.fulls

C14_Witness ==
    /\ Len(frames) = 1
    /\ frames[1].fate = "enqueued"
    /\ frames[1].fulls = MaxPolls
    /\ produced = <<frames[1].payload>>

\* C15: once the signal handler has set g_intr, an attempt of the handler
\* to produce is its last one, also when the queue is still full
C15_RetryEndsOnShutdown ==
    [][(g_intr # 0 /\ handler.pc = "produce") => handler'.pc = "idle"]_vars

\* C16: when rd_kafka_produce fails with an error other than queue-full
\* the handler does not poll or retry: nothing is queued, the buffer is
\* deleted and output_buf reset, and the handler returns 0
C16_OtherErrorDropsFrame ==
    [][(handler.pc = "produce" /\ handler'.err = "other") =>
          /\ handler'.pc = "idle"
          /\ handler'.rc = 0
          /\ handler'.polls = handler.polls
          /\ produced' = produced
          /\ output_buf' = NoBbuf
          /\ ~dtc_crashed'
      ]_vars

C16_Witness ==
    \E i, j \in 1..Len(frames) :
        /\ i < j
        /\ frames[i].fate = "dropped"
        /\ frames[j].fate = "enqueued"
        /\ produced = <<frames[j].payload>>
        /\ output_buf = NoBbuf

C19_FieldsUnderSessionLock == unlocked = {}

\* C20: while ddtrace_stop is walking the hash table nothing else inserts
\* into or removes from a chain, and the client it visits next is still
\* linked
C20_ChainsUnderRegistryLock ==
    [][/\ (stopper.pc \in {"scan", "signalled", "tsleep"}
            /\ stopper' = stopper)
           => ddtrace_hashtbl' = ddtrace_hashtbl
       /\ (stopper'.pc \in {"scan", "signalled", "tsleep"}
            /\ stopper'.k # NULL)
           => stopper'.k \in Linked'
      ]_vars

\* the region written to CPU 0 consists of n records of DL_MTU words
MtuRecords(n) ==
    /\ Len(written[FramerState][0]) = n * DL_MTU
    /\ \A i \in 0..(n - 1) :
          written[FramerState][0][i * DL_MTU + 1] = Len(FramerSizes)

\* C13: a drained region of n records of DL_MTU words each has become n
\* trace entries of one record each
C13_OneFramePerMtuRecord ==
    \A n \in 1..MaxRecs :
        (MtuRecords(n) /\ Drained) =>
            /\ Len(tq) = n
            /\ \A i \in 1..n : tq[i].dtbd_size = DL_MTU
    /\ \E i \in 1..Len(written[FramerState][0]) :
          written[FramerState][0][i] = DL_MTU

\* C21: no two running threads serve the same tracing state, so the
\* buffers of a tracing state are switched by one thread only
C21_OneWorkerPerHandle ==
    \A k1, k2 \in ClientIds :
        (/\ Running(k1)
         /\ Running(k2)
         /\ client[k1].ddtrace_state = client[k2].ddtrace_state)
            => k1 = k2

\* the opening and closing fragments of frs alternate, an opening one
\* first
RECURSIVE Alternates(_, _)
Alternates(frs, inside) ==
    IF frs = <<>> THEN TRUE
    ELSE IF Head(frs)[1] = "{" THEN ~inside /\ Alternates(Tail(frs), TRUE)
    ELSE IF Head(frs)[1] = "}" THEN inside /\ Alternates(Tail(frs), FALSE)
    ELSE Alternates(Tail(frs), inside)

\* the messages in frs: each runs from an opening fragment to the next
\* closing one; cur is the text since the last opening fragment
RECURSIVE Messages(_, _)
Messages(frs, cur) ==
    IF frs = <<>> THEN <<>>
    ELSE IF Head(frs)[1] = "{" THEN Messages(Tail(frs), Head(frs))
    ELSE IF Head(frs)[1] = "}"
    THEN <<cur \o Head(frs)>> \o Messages(Tail(frs), <<>>)
    ELSE Messages(Tail(frs), cur \o Head(frs))

\* the payloads the handler has passed to rd_kafka_produce, oldest first
Emitted ==
    [i \in 1..Len(frames) |-> frames[i].payload] \o
        (IF handler.pc = "produce" THEN <<handler.frame>> ELSE <<>>)

\* C22: when the opening and closing fragments handed to the buffered
\* handler alternate, it passes one payload to rd_kafka_produce for every
\* closing fragment and none otherwise, and each payload is the text of
\* the fragments from the opening one through the closing one, in order
C22_OneFramePerClose ==
    Alternates(handler.arrived, FALSE) =>
        Emitted = Messages(handler.arrived, <<>>)

C22_Witness ==
    /\ handler.arrived = << <<"{">>, <<"a">>, <<"}">>, <<"{">> >>
    /\ Len(frames) = 1
    /\ frames[1].payload = <<"{", "a", "}">>
    /\ output_buf.data = <<"{">>
    /\ ~dtc_crashed

\* the positions of a thread inside one cycle of its loop, after the wake
CyclePcs == {"alive_max", "alive_now", "alive_store", "switch"}

\* the position that follows pc in the cycle
CycleNext(pc) ==
    CASE pc = "alive_max" -> "alive_now"
      [] pc = "alive_now" -> "alive_store"
      [] pc = "alive_store" -> "switch"
      [] pc = "switch" -> "wait"

\* C23: a thread reads the exit flag only when it wakes from the timed
\* wait, with ddtrace_mtx held; inside a cycle it goes on to the next step
\* of the cycle whether or not the flag was set meanwhile, up to the end
\* of ddtrace_buffer_switch, and comes back to the wait
C23_CycleNotInterrupted ==
    [][\A k \in ClientIds :
          /\ thread'[k].observed # thread[k].observed => thread[k].pc = "wait"
          /\ (thread[k].pc \in CyclePcs /\ thread'[k].pc # thread[k].pc) =>
                 thread'[k].pc = CycleNext(thread[k].pc)
          /\ <<"ddtrace_thread", "ddtrace_exit">> \notin unlocked'
      ]_vars

\* a thread in the middle of a cycle, with a record to drain, whose exit
\* flag was set after it woke
C23_Witness ==
    \E k \in ClientIds :
        /\ client[k].mem = "live"
        /\ client[k].ddtrace_exit = 1
        /\ thread[k].pc = "switch"
        /\ ~thread[k].observed
        /\ dts_buffer[client[k].ddtrace_state][0].dtb_offset > 0

\* thread k has just returned from a call of ddtrace_buffer_switch
Harvested(k) ==
    /\ thread[k].pc \in {"switch", "final"}
    /\ thread'[k].pc \notin {"switch", "final"}

\* C24: a call of ddtrace_buffer_switch that meets a CPU whose buffer was
\* never allocated (dtb_tomax is NULL) still sends the cross call to every
\* CPU of the tracing state that has a buffer, also to those after it
C24_NullUnitSkippedAlone ==
    [][\A k \in ClientIds :
          (Harvested(k) /\ client[k].mem = "live" /\ ~panicked') =>
              \A cpu \in Cpus :
                  dts_buffer[client[k].ddtrace_state][cpu].dtb_tomax # NULL
                      => cpu \in harvest'.xcalled
      ]_vars

\* the CPUs whose buffer the call of ddtrace_buffer_switch that thread k
\* has just made sent the cross call to and found switched, or not
SwitchedCpus(k) ==
    {cpu \in harvest'.xcalled :
        dts_buffer'[client[k].ddtrace_state][cpu].dtb_tomax #
            dts_buffer[client[k].ddtrace_state][cpu].dtb_tomax}

UnswitchedCpus(k) == harvest'.xcalled \ SwitchedCpus(k)

\* the sum of a counter over the buffers of some CPUs
RECURSIVE SumField(_, _, _)
SumField(bufs, cpus, field) ==
    IF cpus = {} THEN 0
    ELSE LET cpu == CHOOSE c \in cpus : TRUE
         IN bufs[cpu][field] + SumField(bufs, cpus \ {cpu}, field)

\* C25: a CPU whose active region is the same after the cross call as
\* before counts as having produced nothing: its buffer is left as it
\* was, none of its counters goes into dts_errors, nothing of it is handed
\* to ddtrace_persist_trace, no assertion fails and the loop goes on with
\* the next CPU
C25_UnswitchedUnitYieldsNothing ==
    [][\A k \in ClientIds :
          (Harvested(k) /\ client[k].mem = "live") =>
              LET state == client[k].ddtrace_state IN
              /\ \A cpu \in UnswitchedCpus(k) :
                    /\ dts_buffer'[state][cpu] = dts_buffer[state][cpu]
                    /\ \A i \in (Len(handed) + 1)..Len(handed') :
                          RegionCpu(handed'[i].dtbd_data) # cpu
                    /\ ~panicked'
                    /\ (cpu + 1 \in Cpus /\
                        dts_buffer[state][cpu + 1].dtb_tomax # NULL)
                           => cpu + 1 \in harvest'.xcalled
              /\ dts_errors'[state] = dts_errors[state] +
                     SumField(dts_buffer'[state], SwitchedCpus(k),
                              "dtb_xamot_errors")
              /\ Len(tq') - Len(tq) = Len(handed') - Len(handed)
      ]_vars

\* a call found CPU 0, which holds records and an error count, not
\* switched and went on to CPU 1, which it switched
C25_Witness ==
    /\ harvest.xcalled = Cpus
    /\ dts_buffer[FramerState][0].dtb_tomax = Region(FramerState, 0, 1)
    /\ dts_buffer[FramerState][0].dtb_offset > 0
    /\ dts_buffer[FramerState][0].dtb_errors = 1
    /\ dts_buffer[FramerState][1].dtb_tomax = Region(FramerState, 1, 2)
    /\ dts_errors[FramerState] = 0
    /\ tq = <<>>
    /\ ~panicked

\* C26: every call of ddtrace_buffer_switch adds the drop counts and the
\* error counts of the regions it drained to the running total of the
\* tracing state (dtrace_state_t keeps one, dts_errors), and the total
\* never decreases, also when nothing was drained
C26_DropsAndErrorsAccumulated ==
    [][\A k \in ClientIds :
          (Harvested(k) /\ client[k].mem = "live") =>
              LET state == client[k].ddtrace_state IN
              /\ dts_errors'[state] >= dts_errors[state]
              /\ dts_errors'[state] = dts_errors[state] +
                     SumField(dts_buffer'[state], SwitchedCpus(k),
                              "dtb_xamot_errors") +
                     SumField(dts_buffer'[state], SwitchedCpus(k),
                              "dtb_xamot_drops")
      ]_vars

\* C27: a thread stores a fresh timestamp in dts_alive before every call
\* of ddtrace_buffer_switch it makes, the one after the loop included
C27_StampBeforeEveryCycle ==
    [][\A k \in ClientIds : Harvested(k) => thread[k].stamped]_vars

\* the positions of a thread inside ddtrace_persist_metadata, and those
\* at which it holds dtrace_lock
MetaPcs == {"meta_fmt", "meta_fmt_held", "meta_ecb", "meta_ecb_held"}

MetaHeldPcs == {"meta_fmt_held", "meta_ecb_held"}

\* C28: a thread enters ddtrace_persist_metadata once, when it starts,
\* and has returned from it, with dtrace_lock released, before it makes
\* its first call of ddtrace_buffer_switch; it holds dtrace_lock nowhere
\* else
C28_MetadataOnceBeforeFirstSwitch ==
    [][\A k \in ClientIds :
          /\ (thread'[k].pc \in MetaPcs /\ thread[k].pc \notin MetaPcs) =>
                 thread[k].pc = "none" /\ thread'[k].exports = 0
          /\ (thread[k].pc \in MetaPcs /\ thread'[k].pc \notin MetaPcs) =>
                 thread'[k].pc = "wait" /\ thread'[k].exports = 1
          /\ Harvested(k) => thread[k].exports = 1
          /\ thread'[k].exports <= 1
          /\ dtrace_lock' = Holder(k) => thread'[k].pc \in MetaHeldPcs
      ]_vars

\* a thread that has exported its metadata and then switched and handed
\* on a region
C28_Witness ==
    \E k \in ClientIds :
        /\ thread[k].exports = 1
        /\ thread[k].pc = "wait"
        /\ harvest.xcalled = Cpus
        /\ tq # <<>>
        /\ dtrace_lock = "free"

\* the offset at which a walk over the records of a region stops: at the
\* first record whose probe id has no size, or at the end of the region
RECURSIVE WalkStop(_, _)
WalkStop(words, size) ==
    IF size >= Len(words) THEN Len(words)
    ELSE IF words[size + 1] = DTRACE_EPIDNONE THEN WalkStop(words, size + 1)
    ELSE IF dtrace_epid2size(FramerArg, words[size + 1]) = 0 THEN size
    ELSE WalkStop(words,
                  size + dtrace_epid2size(FramerArg, words[size + 1]))

\* C29: ddtrace_persist_trace stops at a record whose probe id has record
\* size 0 and drops the rest of the region: no trace entry reaches beyond
\* the offset of that record
C29_UnknownRecordEndsFraming ==
    \A i \in 1..Len(tq) :
        tq[i].dtbd_size <= WalkStop(written[FramerState][0], 0)

\* C30: no record of a tracing state that ddtrace_open accepted is larger
\* than ddtrace_record_bound, the bound that ddtrace_persist_trace cuts
\* messages against, because that is the bound open has tested
C30_OpenBoundIsFramingBound ==
    last_log = "ddtrace_open" =>
        \A epid \in 1..(dts_epid(open_arg) - 1) :
            dtrace_epid2size(open_arg, epid) <= ddtrace_record_bound

\* C31: dtc_get_buf copies the payload of a consumed message into the
\* returned buffer only if the message has no error, a length above zero
\* and a key equal to the string "ddtrace"; for every other message the
\* returned buffer has size 0 and no payload
C31_OnlyDdtraceKeyCopied ==
    (rkmessage # <<>> /\ bufp # <<>>) =>
        LET msg == rkmessage[1]
            buf == bufp[1]
        IN  IF /\ msg.err = 0
               /\ msg.len > 0
               /\ msg.key = <<DdtraceKey>>
            THEN buf.dtbd_size = msg.len /\ buf.dtbd_data = <<msg.payload>>
            ELSE buf.dtbd_size = 0 /\ buf.dtbd_data = <<>>

\* C32: a cycle of the main loop that begins with g_intr set marks the loop
\* done, and a loop marked done runs its pump and its work step and then
\* goes on to the flush and the teardown: it never returns to the top
C32_InterruptEndsLoop ==
    [][/\ (mainloop.pc = "top" /\ g_intr # 0 /\ mainloop' # mainloop)
             => (mainloop'.pc = "poll" /\ mainloop'.done = 1)
       /\ (mainloop.done # 0 /\ mainloop' # mainloop)
             => /\ mainloop'.done # 0
                /\ mainloop'.pc = CASE mainloop.pc = "poll" -> "work"
                                    [] mainloop.pc = "work" -> "flush"
                                    [] OTHER -> "exit"]_vars

\* the signal arrived during the first cycle, the second cycle began with
\* the flag set and is at its work step
C32_Witness ==
    /\ g_intr = 1
    /\ mainloop.pc = "work"
    /\ mainloop.done = 1
    /\ mainloop.cycles >= 1
    /\ ~dtc_crashed

\* C33: the wait of ddtrace_close and of ddtrace_stop for the exit of the
\* thread does not miss the wakeup: whenever the signalled thread has made
\* its final call and exited, the wait ends woken and not by its timeout
C33_WaitSeesWorkerExit ==
    [][/\ (closer.pc = "tsleep" /\ closer'.pc # "tsleep"
            /\ thread[closer.k].pc = "exited") => closer.woken
       /\ (stopper.pc = "tsleep" /\ stopper'.pc # "tsleep"
            /\ thread[stopper.k].pc = "exited") => stopper.woken
      ]_vars

\* C34: ddtrace_close, which runs with dtrace_lock held, never ends its
\* wait for a thread that has been waiting for dtrace_lock, at one of the
\* two mutex_enter calls of the metadata export, during that whole wait
C34_CloseNeverBlocksWorker ==
    [][(closer.pc = "tsleep" /\ closer'.pc # "tsleep")
          => ~(/\ dtrace_lock = "lifecycle"
               /\ thread[closer.k].pc \in {"meta_fmt", "meta_ecb"})]_vars

\* C35: no entry on the trace queue points at a region that is the active
\* region (dtb_tomax) of a buffer: a region handed on is not written by
\* probes again before the reader of the queue has taken its entry
C35_QueuedRegionNotActive ==
    \A i \in 1..Len(tq) : \A cpu \in Cpus :
        dts_buffer[FramerState][cpu].dtb_tomax # tq[i].dtbd_data

\* C36: the module is unregistered from DTrace before the hash table is
\* destroyed, so that once hashdestroy was called no open and no close
\* notification inserts into or removes from the table
C36_NoLifecycleAfterDestroy ==
    [][hashtbl_destroyed =>
           (~registered /\ ddtrace_hashtbl' = ddtrace_hashtbl)]_vars

\* C37: on every failure path of dtc_setup_rx_topic and dtc_setup_tx_topic
\* only what was created is destroyed, once: the client handle is not
\* destroyed before it exists, the conf object is not destroyed after a
\* client handle took it over, and the function returns -1
C37_SetupFailureCleansUp ==
    /\ setup.misuse = {}
    /\ setup.ret = -1 => (setup.rk # "live" /\ setup.conf # "live")

\* C38: dthyve_configured() is true exactly when sockfd names an open,
\* connected socket, and a call of dthyve_read made while no such socket
\* is held returns -1 without a recv
C38_ConfiguredIffSocketHeld ==
    [][/\ dthyve_configured' <=>
              (/\ dthyve'.sockfd # -1
               /\ dthyve'.fds[dthyve'.sockfd] = "connected")
       /\ (/\ dthyve'.call = "dthyve_read"
           /\ ~(/\ dthyve.sockfd # -1
                /\ dthyve.fds[dthyve.sockfd] = "connected"))
             => (dthyve'.rval = -1 /\ dthyve'.recvs = 0)]_vars

\* C39: for every sequence of calls of dtc_buffered_handler, no call fails
\* the assertion that output_buf is NULL at an opening fragment and none
\* appends to a NULL output_buf; output_buf is allocated when the call for
\* an opening fragment returns and NULL again when the call for the
\* closing fragment returns
C39_BufferLiveInsideMessage ==
    [][/\ handler'.arrived # handler.arrived =>
             /\ ~dtc_crashed'
             /\ handler'.arrived[Len(handler'.arrived)][1] = "{" =>
                    output_buf'.alloc
       /\ (handler.pc = "produce" /\ handler'.pc = "idle") =>
             ~output_buf'.alloc]_vars

====
